---- MODULE Spec2Model ----
(***************************************************************************)
(* Task lifecycle runtime of go-base: one Task (any trigger type) with its *)
(* constructor, loop goroutine, background trigger goroutine, concurrent   *)
(* callers of Stop / Fire / Reload, the orchestrator registries, and the   *)
(* liveness registry with its watchdog scan.                               *)
(***************************************************************************)
EXTENDS Integers, Sequences, FiniteSets, TLC

\* ---------------------------------------------------------------- bounds
\* values sent on the trigger channel of a channel-driven task
MaxSend == 2
\* connections accepted by the listener of a TCP task
MaxConn == 1
\* failed Accept calls on the closed listener of a TCP task
MaxAcceptErr == 1
\* filesystem events delivered by the watcher
MaxEvent == 1
\* expirations of the nap timer of an interval task
MaxTimer == 1
\* changes of tb.Sleep made by the behaviour after construction
MaxSleep == 1
\* calls of Task.Fire by the environment
MaxFire == 1
\* calls of Task.Reload after construction (direct or by the global sweep)
MaxReload == 1
\* the recurring duration of the interval task, in clock units
Period == 1
\* last clock value of the liveness model
MaxTime == 3
\* largest timeout a liveness key is registered with
MaxTimeout == 2

\* buffer of the trigger channel: make(chan os.Signal, 1)
ChanCap == 1

\* callers that may invoke Task.Stop concurrently
Callers == {"c1", "c2"}

\* t.id, the key of the task in the registries
TaskId == "task"

\* keys registered in the liveness registry by other clients
LiverKeys == {"k1", "k2"}

AllKeys == LiverKeys \cup {TaskId}

\* keys under which clients register reload and retire callbacks
GroupKeys == {"f1", "f2"}

\* goroutines that call the global Reload() or Retire()
GroupCallers == {"g1", "g2"}

\* which registry a batch runs: Reload() runs reloadFuncs, Retire() retireFuncs
Kinds == {"reload", "retire"}

None == [last |-> -1, timeout |-> -1]

VARIABLES
    tb,           \* TaskBase: taskType, Immediately, Sleep, Argument, Trigger
    t,            \* Task: life, nap, fire, retire, onceStop, mtxReload
    pc,           \* control points: ctor (newTask/start), routine, bg
    ch,           \* the trigger channel: buf, closed
    stopper,      \* per caller of Stop(): pc, err, via
    firer,        \* the caller of Fire(): pc, err, calls
    reloader,     \* the caller of Reload(): pc, err, calls
    reloadFuncs,  \* keys of the reload-callback registry
    retireFuncs,  \* keys of the retire-callback registry
    behav,        \* the behaviour: does Retire close the trigger channel
    hist,         \* observation: schedule calls, counters
    dead,         \* "no", or how the process ended: "fatal" / "panic"
    now,          \* the clock
    data,         \* liver.data: key -> live{last, timeout} (None: absent)
    scan,         \* the watchdog scan (liver.Schedule): pc, now, todo
    fatalKey,     \* keys the watchdog has issued Fatal for
    lhist,        \* observation of the registry: stable (keys untouched since the
                  \* running scan began), cancelled (keys cancelled before their
                  \* deadline and not registered since), deadline (of those)
    mtx,          \* reloadMtx and retireMtx: the caller holding each, or ""
    grp,          \* per caller of the global Reload() / Retire(): its groupRun
    kvs,          \* a key/value store (kv or s3kv) and the client working on it
    rid,          \* randid: the counter seq and the callers of New()
    cli           \* client / s3kv: configuration, clientMap, callers of NewContext

vars ==
    <<tb, t, pc, ch, stopper, firer, reloader, reloadFuncs, retireFuncs, behav,
      hist, dead, now, data, scan, fatalKey, lhist, mtx, grp, kvs, rid, cli>>

taskVars ==
    <<tb, t, pc, ch, stopper, firer, reloader, reloadFuncs, retireFuncs, behav, hist>>

liverOnly ==
    <<now, scan, fatalKey, lhist>>

groupVars ==
    <<mtx, grp>>

libVars ==
    <<kvs, rid, cli>>

\* ------------------------------------------------------------ liver.data
\* liver.Register: Store(key, &live{last: now, timeout})
Register(d, key, timeout) ==
    [d EXCEPT ![key] = [last |-> now, timeout |-> timeout]]

\* Cancel that leaves the entry in the map
CancelKeeps(d, key) ==
    d

\* liver.Cancel: LoadAndDelete(key)
Cancel(d, key) ==
    [d EXCEPT ![key] = None]

\* ------------------------------------------------------------------ Task
\* Task.Died: the life context is done
Died ==
    t.life = "done"

\* a context's cancel function: cancelling a done (or absent) context is a no-op
CancelNap(n) ==
    IF n \in {"open", "timed"} THEN "done" ELSE n

\* Tasker.Schedule is entered (at clock value now): it reads tb.Argument
SchedBegin(h, by) ==
    [h EXCEPT !.running = @ + 1,
              !.schedLog = Append(@, [by |-> by, arg |-> tb.Argument, died |-> Died,
                                      at |-> now])]

\* Tasker.Schedule returns
SchedEnd(h) ==
    [h EXCEPT !.running = @ - 1,
              !.slowest = IF now - h.schedLog[Len(h.schedLog)].at > @
                          THEN now - h.schedLog[Len(h.schedLog)].at ELSE @]

InitTask ==
    /\ \E ty \in {"Onetime", "OnTCP", "OnReload", "OnChannel", "OnInterval", "OnFsChange",
                  "Manual"},
          imm \in BOOLEAN, trk \in {0, 1}, rc \in BOOLEAN :
        /\ ty = "OnInterval" => imm
        /\ ty # "OnInterval" => trk = 0
        /\ ty # "OnChannel" => ~rc
        /\ tb = [taskType |-> ty, Immediately |-> imm, Sleep |-> FALSE,
                 Argument |-> trk, Trigger |-> "nil"]
        /\ behav = [retireCloses |-> rc]
    /\ t = [life |-> "open", nap |-> "nil", napAt |-> 0, fire |-> FALSE, retire |-> "nil",
            onceStop |-> "fresh", mtxReload |-> FALSE]
    /\ pc = [ctor |-> "newTask", routine |-> "none", bg |-> "none"]
    /\ ch = [buf |-> <<>>, closed |-> FALSE]
    /\ stopper = [c \in Callers |-> [pc |-> "idle", err |-> "none"]]
    /\ firer = [pc |-> "idle", err |-> "none", calls |-> 0]
    /\ reloader = [pc |-> "idle", err |-> "none", calls |-> 0]
    /\ reloadFuncs = {}
    /\ retireFuncs = {}
    /\ hist = [schedLog |-> <<>>, running |-> 0, retireCount |-> 0, reloadCount |-> 0,
               received |-> <<>>, sent |-> 0, conns |-> 0, events |-> 0, timers |-> 0,
               acceptErrs |-> 0, sleeps |-> 0,
               stopFirst |-> "", recvLive |-> 0, ctorReloadErr |-> FALSE,
               slowest |-> 0]
    /\ dead = "no"

InitLiver ==
    /\ now = 0
    /\ data = [k \in AllKeys |-> None]
    /\ scan = [pc |-> "idle", now |-> 0, todo |-> {}]
    /\ fatalKey = {}
    /\ lhist = [stable |-> {}, cancelled |-> {}, deadline |-> [k \in AllKeys |-> 0]]

\* a goroutine that is not inside Reload() or Retire(): no groupRun locals
NoCall ==
    [pc |-> "idle", kind |-> "reload", parent |-> <<>>,
     todo |-> {}, snap |-> {}, skipped |-> {},
     functionStatus |-> [k \in GroupKeys |-> "none"],
     fn |-> [k \in GroupKeys |-> "none"],
     ctx |-> "nil", late |-> FALSE, logged |-> FALSE]

\* no goroutine is calling the global Reload() or Retire()
InitNoGroup ==
    /\ mtx = [k \in Kinds |-> ""]
    /\ grp = <<>>

\* no store is open, no identifier is drawn, no client is constructed
InitNoLib ==
    /\ kvs = <<>>
    /\ rid = <<>>
    /\ cli = <<>>

Init ==
    InitTask /\ InitLiver /\ InitNoGroup /\ InitNoLib

\* newTask that goes on to t.Start() without calling t.Reload()
newTaskSkipsReload ==
    /\ dead = "no" /\ pc.ctor = "newTask"
    /\ pc' = [pc EXCEPT !.ctor = "start"]
    /\ UNCHANGED <<tb, t, hist, ch, stopper, firer, reloader, reloadFuncs, retireFuncs,
                   behav, dead, data, liverOnly, groupVars, libVars>>

\* ------------------------------------------------------- newTask / start
\* newTask: t.Reload() is entered (the behaviour's Reload may set tb.Sleep)
newTaskReload ==
    /\ dead = "no" /\ pc.ctor = "newTask"
    /\ t' = [t EXCEPT !.mtxReload = TRUE]
    /\ hist' = [hist EXCEPT !.reloadCount = @ + 1]
    /\ \E s \in BOOLEAN :
        /\ s => tb.taskType = "OnInterval"
        /\ tb' = [tb EXCEPT !.Sleep = s]
    /\ pc' = [pc EXCEPT !.ctor = "reloading"]
    /\ UNCHANGED <<ch, stopper, firer, reloader, reloadFuncs, retireFuncs, behav,
                   dead, data, liverOnly, groupVars, libVars>>

\* newTask that logs the error of t.Reload() and goes on to t.Start()
newTaskReloadedGoesOn ==
    /\ dead = "no" /\ pc.ctor = "reloading"
    /\ t' = [t EXCEPT !.mtxReload = FALSE]
    /\ \E err \in BOOLEAN :
        /\ hist' = [hist EXCEPT !.ctorReloadErr = err]
        /\ pc' = [pc EXCEPT !.ctor = "start"]
    /\ UNCHANGED <<tb, ch, stopper, firer, reloader, reloadFuncs, retireFuncs, behav,
                   dead, data, liverOnly, groupVars, libVars>>

\* newTask: t.Reload() returns; an error is Fatal (the process exits)
newTaskReloaded ==
    /\ dead = "no" /\ pc.ctor = "reloading"
    /\ t' = [t EXCEPT !.mtxReload = FALSE]
    /\ \E err \in BOOLEAN :
        /\ hist' = [hist EXCEPT !.ctorReloadErr = err]
        /\ IF err
           THEN dead' = "fatal" /\ pc' = pc
           ELSE dead' = dead /\ pc' = [pc EXCEPT !.ctor = "start"]
    /\ UNCHANGED <<tb, ch, stopper, firer, reloader, reloadFuncs, retireFuncs, behav,
                   data, liverOnly, groupVars, libVars>>

\* start whose manual case leaves the switch instead of returning
startManualFallsThrough ==
    /\ dead = "no" /\ pc.ctor = "start"
    /\ \/ /\ tb.taskType = "Manual"
          /\ pc' = [pc EXCEPT !.ctor = "run"]
          /\ UNCHANGED <<tb, t, hist>>
       \/ /\ tb.taskType = "Onetime"
          /\ hist' = SchedBegin(hist, "start")
          /\ pc' = [pc EXCEPT !.ctor = "schedOnetime"]
          /\ UNCHANGED <<tb, t>>
       \/ /\ tb.taskType \in {"OnTCP", "OnFsChange"}
          /\ \E res \in {"ok", "failed", "failedAdd"} :
                /\ res = "failedAdd" => tb.taskType = "OnFsChange"
                /\ IF res = "ok"
                   THEN /\ tb' = [tb EXCEPT !.Trigger = "open"]
                        /\ pc' = [pc EXCEPT !.ctor = "run"]
                        /\ t' = t
                   ELSE /\ tb' = IF res = "failedAdd"
                                 THEN [tb EXCEPT !.Trigger = "closed"] ELSE tb
                        /\ pc' = [pc EXCEPT !.ctor = "failed"]
                        /\ t' = [t EXCEPT !.life = "done"]
          /\ hist' = hist
       \/ /\ tb.taskType \in {"OnReload", "OnChannel", "OnInterval"}
          /\ pc' = [pc EXCEPT !.ctor = "run"]
          /\ UNCHANGED <<tb, t, hist>>
    /\ UNCHANGED <<ch, stopper, firer, reloader, reloadFuncs, retireFuncs, behav,
                   dead, data, liverOnly, groupVars, libVars>>

\* start whose bind/watch failure branches have no deferred t.die()
startFailedNoDie ==
    /\ dead = "no" /\ pc.ctor = "start"
    /\ tb.taskType \in {"OnTCP", "OnFsChange"}
    /\ \E res \in {"failed", "failedAdd"} :
          /\ res = "failedAdd" => tb.taskType = "OnFsChange"
          /\ tb' = IF res = "failedAdd" THEN [tb EXCEPT !.Trigger = "closed"] ELSE tb
    /\ pc' = [pc EXCEPT !.ctor = "failed"]
    /\ UNCHANGED <<t, hist, ch, stopper, firer, reloader, reloadFuncs, retireFuncs, behav,
                   dead, data, liverOnly, groupVars, libVars>>

\* Task.start: the type switch that initialises the trigger (Listen, or
\* NewWatcher and Add, may fail: the task dies and start returns the error);
\* the life context cannot be done yet, nobody else holds the task
start ==
    /\ dead = "no" /\ pc.ctor = "start"
    /\ \/ /\ tb.taskType = "Manual"
          /\ IF tb.Immediately
             THEN hist' = SchedBegin(hist, "start") /\ pc' = [pc EXCEPT !.ctor = "schedManual"]
             ELSE hist' = hist /\ pc' = [pc EXCEPT !.ctor = "done"]
          /\ UNCHANGED <<tb, t>>
       \/ /\ tb.taskType = "Onetime"
          /\ hist' = SchedBegin(hist, "start")
          /\ pc' = [pc EXCEPT !.ctor = "schedOnetime"]
          /\ UNCHANGED <<tb, t>>
       \/ /\ tb.taskType \in {"OnTCP", "OnFsChange"}
          /\ \E res \in {"ok", "failed", "failedAdd"} :
                /\ res = "failedAdd" => tb.taskType = "OnFsChange"
                /\ IF res = "ok"
                   THEN /\ tb' = [tb EXCEPT !.Trigger = "open"]
                        /\ pc' = [pc EXCEPT !.ctor = "run"]
                        /\ t' = t
                   ELSE /\ tb' = IF res = "failedAdd"
                                 THEN [tb EXCEPT !.Trigger = "closed"] ELSE tb
                        /\ pc' = [pc EXCEPT !.ctor = "failed"]
                        /\ t' = [t EXCEPT !.life = "done"]
          /\ hist' = hist
       \/ /\ tb.taskType \in {"OnReload", "OnChannel", "OnInterval"}
          /\ pc' = [pc EXCEPT !.ctor = "run"]
          /\ UNCHANGED <<tb, t, hist>>
    /\ UNCHANGED <<ch, stopper, firer, reloader, reloadFuncs, retireFuncs, behav,
                   dead, data, liverOnly, groupVars, libVars>>

\* start whose one-shot case has no deferred t.die()
startScheduledNoDie ==
    /\ dead = "no" /\ pc.ctor \in {"schedManual", "schedOnetime"}
    /\ hist' = SchedEnd(hist)
    /\ pc' = [pc EXCEPT !.ctor = "done"]
    /\ UNCHANGED <<tb, t, ch, stopper, firer, reloader, reloadFuncs, retireFuncs, behav,
                   dead, data, liverOnly, groupVars, libVars>>

\* Task.start: Schedule of a manual or one-shot task returns; one-shot dies
startScheduled ==
    /\ dead = "no" /\ pc.ctor \in {"schedManual", "schedOnetime"}
    /\ hist' = SchedEnd(hist)
    /\ t' = IF pc.ctor = "schedOnetime" THEN [t EXCEPT !.life = "done"] ELSE t
    /\ pc' = [pc EXCEPT !.ctor = "done"]
    /\ UNCHANGED <<tb, ch, stopper, firer, reloader, reloadFuncs, retireFuncs, behav,
                   dead, data, liverOnly, groupVars, libVars>>

\* Task.start: the immediate run, before the loop goroutine exists
startRun ==
    /\ dead = "no" /\ pc.ctor = "run"
    /\ IF tb.Immediately /\ ~tb.Sleep
       THEN hist' = SchedBegin(hist, "start") /\ pc' = [pc EXCEPT !.ctor = "schedRun"]
       ELSE hist' = hist /\ pc' = [pc EXCEPT !.ctor = "go"]
    /\ UNCHANGED <<tb, t, ch, stopper, firer, reloader, reloadFuncs, retireFuncs, behav,
                   dead, data, liverOnly, groupVars, libVars>>

\* Task.start: the immediate Schedule returns
startRunDone ==
    /\ dead = "no" /\ pc.ctor = "schedRun"
    /\ hist' = SchedEnd(hist)
    /\ pc' = [pc EXCEPT !.ctor = "go"]
    /\ UNCHANGED <<tb, t, ch, stopper, firer, reloader, reloadFuncs, retireFuncs, behav,
                   dead, data, liverOnly, groupVars, libVars>>

\* Task.start: go t.routine()
startGo ==
    /\ dead = "no" /\ pc.ctor = "go"
    /\ pc' = [pc EXCEPT !.ctor = "regRetire", !.routine = "top"]
    /\ UNCHANGED <<tb, t, ch, stopper, firer, reloader, reloadFuncs, retireFuncs, behav,
                   hist, dead, data, liverOnly, groupVars, libVars>>

\* Task.start: RetireRegister(t.Stop, t.id)
startRetireRegister ==
    /\ dead = "no" /\ pc.ctor = "regRetire"
    /\ retireFuncs' = retireFuncs \cup {TaskId}
    /\ pc' = [pc EXCEPT !.ctor = "regReload"]
    /\ UNCHANGED <<tb, t, ch, stopper, firer, reloader, reloadFuncs, behav,
                   hist, dead, data, liverOnly, groupVars, libVars>>

\* Task.start: ReloadRegister(t.Reload, t.id), then newTask returns the task
startReloadRegister ==
    /\ dead = "no" /\ pc.ctor = "regReload"
    /\ reloadFuncs' = reloadFuncs \cup {TaskId}
    /\ pc' = [pc EXCEPT !.ctor = "done"]
    /\ UNCHANGED <<tb, t, ch, stopper, firer, reloader, retireFuncs, behav,
                   hist, dead, data, liverOnly, groupVars, libVars>>

\* newTask has returned the *Task to its owner
Returned ==
    pc.ctor \in {"done", "failed"}

\* a liveness deadline of one recurring duration
TrackTimeoutShort ==
    Period

\* the deadline an interval task registers itself with:
\* LiverRegister(t.id, 4*tb.Trigger.(time.Duration))
TrackTimeout ==
    4 * Period

\* ----------------------------------------------------------- Task.routine
\* routine, top of the loop: the nap of this iteration and its trigger wait
routineNap ==
    /\ dead = "no" /\ pc.routine = "top"
    /\ CASE tb.taskType = "OnInterval" /\ tb.Sleep ->
              /\ t' = [t EXCEPT !.nap = "open", !.fire = TRUE]
              /\ data' = Cancel(data, TaskId)
              /\ pc' = [pc EXCEPT !.routine = "select"]
         [] tb.taskType = "OnInterval" /\ ~tb.Sleep ->
              /\ t' = [t EXCEPT !.nap = "timed", !.napAt = now, !.fire = TRUE]
              /\ data' = IF tb.Argument = 1 THEN Register(data, TaskId, TrackTimeout) ELSE data
              /\ pc' = [pc EXCEPT !.routine = "select"]
         [] tb.taskType \in {"OnReload", "Manual"} ->
              /\ t' = [t EXCEPT !.nap = "open", !.fire = TRUE]
              /\ data' = data
              /\ pc' = [pc EXCEPT !.routine = "select"]
         [] OTHER ->
              /\ t' = [t EXCEPT !.nap = "open"]
              /\ data' = data
              /\ pc' = [pc EXCEPT !.routine = "select", !.bg = "wait"]
    /\ UNCHANGED <<tb, ch, stopper, firer, reloader, reloadFuncs, retireFuncs, behav,
                   hist, dead, liverOnly, groupVars, libVars>>

\* routine that calls Schedule without looking at tb.Sleep
routineFireIgnoresSleep ==
    /\ dead = "no" /\ pc.routine = "select" /\ t.nap = "done"
    /\ hist' = SchedBegin(hist, "loop") /\ pc' = [pc EXCEPT !.routine = "sched"]
    /\ UNCHANGED <<tb, t, ch, stopper, firer, reloader, reloadFuncs, retireFuncs, behav,
                   dead, data, liverOnly, groupVars, libVars>>

\* routine, select case <-t.nap.Done(): fall through to Schedule
routineFire ==
    /\ dead = "no" /\ pc.routine = "select" /\ t.nap = "done"
    /\ IF tb.taskType = "OnInterval" /\ tb.Sleep
       THEN hist' = hist /\ pc' = [pc EXCEPT !.routine = "top"]
       ELSE hist' = SchedBegin(hist, "loop") /\ pc' = [pc EXCEPT !.routine = "sched"]
    /\ UNCHANGED <<tb, t, ch, stopper, firer, reloader, reloadFuncs, retireFuncs, behav,
                   dead, data, liverOnly, groupVars, libVars>>

\* routine: Schedule returns, next iteration
routineScheduled ==
    /\ dead = "no" /\ pc.routine = "sched"
    /\ hist' = SchedEnd(hist)
    /\ pc' = [pc EXCEPT !.routine = "top"]
    /\ UNCHANGED <<tb, t, ch, stopper, firer, reloader, reloadFuncs, retireFuncs, behav,
                   dead, data, liverOnly, groupVars, libVars>>

\* routine leaving on <-t.life.Done() without calling Tasker.Retire
routineRetireSkip ==
    /\ dead = "no" /\ pc.routine = "select" /\ Died
    /\ pc' = [pc EXCEPT !.routine = "retire"]
    /\ UNCHANGED <<tb, t, ch, stopper, firer, reloader, reloadFuncs, retireFuncs, behav,
                   hist, dead, data, liverOnly, groupVars, libVars>>

\* routine, select case <-t.life.Done(): Tasker.Retire is called
routineRetire ==
    /\ dead = "no" /\ pc.routine = "select" /\ Died
    /\ hist' = [hist EXCEPT !.retireCount = @ + 1]
    /\ ch' = [ch EXCEPT !.closed = @ \/ behav.retireCloses]
    /\ pc' = [pc EXCEPT !.routine = "retire"]
    /\ UNCHANGED <<tb, t, stopper, firer, reloader, reloadFuncs, retireFuncs, behav,
                   dead, data, liverOnly, groupVars, libVars>>

\* routine: Retire returned, t.retired() and return (nil t.retired: panic)
routineRetired ==
    /\ dead = "no" /\ pc.routine = "retire"
    /\ IF t.retire = "nil"
       THEN /\ dead' = "panic"
            /\ UNCHANGED <<t, pc>>
       ELSE /\ dead' = dead
            /\ t' = [t EXCEPT !.retire = IF @ = "open" THEN "canceled" ELSE @]
            /\ pc' = [pc EXCEPT !.routine = "exit"]
    /\ UNCHANGED <<tb, ch, stopper, firer, reloader, reloadFuncs, retireFuncs, behav,
                   hist, data, liverOnly, groupVars, libVars>>

\* the nap of an active interval task expires
napTimeout ==
    /\ dead = "no" /\ tb.taskType = "OnInterval" /\ t.nap = "timed"
    /\ hist.timers < MaxTimer
    /\ t' = [t EXCEPT !.nap = "done"]
    /\ hist' = [hist EXCEPT !.timers = @ + 1]
    /\ UNCHANGED <<tb, pc, ch, stopper, firer, reloader, reloadFuncs, retireFuncs, behav,
                   dead, data, liverOnly, groupVars, libVars>>

\* the behaviour sets or clears tb.Sleep of its interval task
setSleep ==
    /\ dead = "no" /\ tb.taskType = "OnInterval" /\ Returned
    /\ hist.sleeps < MaxSleep
    /\ hist' = [hist EXCEPT !.sleeps = @ + 1]
    /\ tb' = [tb EXCEPT !.Sleep = ~@]
    /\ UNCHANGED <<t, pc, ch, stopper, firer, reloader, reloadFuncs, retireFuncs, behav,
                   dead, data, liverOnly, groupVars, libVars>>

\* -------------------------------------------- background trigger goroutine
\* OnTCP: Accept returns a connection
bgAccept ==
    /\ dead = "no" /\ tb.taskType = "OnTCP" /\ pc.bg = "wait"
    /\ tb.Trigger = "open" /\ hist.conns < MaxConn
    /\ tb' = [tb EXCEPT !.Argument = hist.conns + 1]
    /\ hist' = [hist EXCEPT !.conns = @ + 1]
    /\ t' = [t EXCEPT !.nap = CancelNap(@)]
    /\ pc' = [pc EXCEPT !.bg = "done"]
    /\ UNCHANGED <<ch, stopper, firer, reloader, reloadFuncs, retireFuncs, behav,
                   dead, data, liverOnly, groupVars, libVars>>

\* OnTCP: Accept fails on the closed listener and Died() is true; the nil
\* connection it returns is stored in tb.Argument (0: no connection). A failed
\* Accept of a live task is logged and retried, the loop still napping
bgAcceptError ==
    /\ dead = "no" /\ tb.taskType = "OnTCP" /\ pc.bg = "wait"
    /\ tb.Trigger = "closed" /\ Died
    /\ hist.acceptErrs < MaxAcceptErr
    /\ tb' = [tb EXCEPT !.Argument = 0]
    /\ hist' = [hist EXCEPT !.acceptErrs = @ + 1]
    /\ t' = [t EXCEPT !.nap = CancelNap(@)]
    /\ pc' = [pc EXCEPT !.bg = "done"]
    /\ UNCHANGED <<ch, stopper, firer, reloader, reloadFuncs, retireFuncs, behav,
                   dead, data, liverOnly, groupVars, libVars>>

\* the receive goroutine cancelling the nap without storing the value in tb.Argument
bgRecvStale ==
    /\ dead = "no" /\ tb.taskType = "OnChannel" /\ pc.bg = "wait"
    /\ ch.buf # <<>>
    /\ ch' = [ch EXCEPT !.buf = Tail(@)]
    /\ hist' = [hist EXCEPT !.received = Append(@, Head(ch.buf)),
                             !.recvLive = IF Died THEN @ ELSE @ + 1]
    /\ t' = [t EXCEPT !.nap = CancelNap(@)]
    /\ pc' = [pc EXCEPT !.bg = "done"]
    /\ UNCHANGED <<tb, stopper, firer, reloader, reloadFuncs, retireFuncs, behav,
                   dead, data, liverOnly, groupVars, libVars>>

\* OnChannel: Recv delivers a value
bgRecv ==
    /\ dead = "no" /\ tb.taskType = "OnChannel" /\ pc.bg = "wait"
    /\ ch.buf # <<>>
    /\ tb' = [tb EXCEPT !.Argument = Head(ch.buf)]
    /\ ch' = [ch EXCEPT !.buf = Tail(@)]
    /\ hist' = [hist EXCEPT !.received = Append(@, Head(ch.buf)),
                             !.recvLive = IF Died THEN @ ELSE @ + 1]
    /\ t' = [t EXCEPT !.nap = CancelNap(@)]
    /\ pc' = [pc EXCEPT !.bg = "done"]
    /\ UNCHANGED <<stopper, firer, reloader, reloadFuncs, retireFuncs, behav,
                   dead, data, liverOnly, groupVars, libVars>>

\* the receive goroutine returning on a closed channel without t.die()
bgRecvClosedNoDie ==
    /\ dead = "no" /\ tb.taskType = "OnChannel" /\ pc.bg = "wait"
    /\ ch.buf = <<>> /\ ch.closed
    /\ pc' = [pc EXCEPT !.bg = "done"]
    /\ UNCHANGED <<tb, t, ch, stopper, firer, reloader, reloadFuncs, retireFuncs, behav,
                   hist, dead, data, liverOnly, groupVars, libVars>>

\* OnChannel: Recv reports the channel closed, t.die()
bgRecvClosed ==
    /\ dead = "no" /\ tb.taskType = "OnChannel" /\ pc.bg = "wait"
    /\ ch.buf = <<>> /\ ch.closed
    /\ t' = [t EXCEPT !.life = "done"]
    /\ pc' = [pc EXCEPT !.bg = "done"]
    /\ UNCHANGED <<tb, ch, stopper, firer, reloader, reloadFuncs, retireFuncs, behav,
                   hist, dead, data, liverOnly, groupVars, libVars>>

\* OnFsChange: an event arrives on watcher.Events
bgFsEvent ==
    /\ dead = "no" /\ tb.taskType = "OnFsChange" /\ pc.bg \in {"wait", "spin"}
    /\ tb.Trigger = "open" /\ hist.events < MaxEvent
    /\ tb' = [tb EXCEPT !.Argument = hist.events + 1]
    /\ hist' = [hist EXCEPT !.events = @ + 1]
    /\ t' = [t EXCEPT !.nap = CancelNap(@)]
    /\ pc' = [pc EXCEPT !.bg = "done"]
    /\ UNCHANGED <<ch, stopper, firer, reloader, reloadFuncs, retireFuncs, behav,
                   dead, data, liverOnly, groupVars, libVars>>

\* OnFsChange: the select takes <-t.life.Done() (or the closed Events) and loops
bgFsSpin ==
    /\ dead = "no" /\ tb.taskType = "OnFsChange" /\ pc.bg = "wait"
    /\ Died \/ tb.Trigger = "closed"
    /\ pc' = [pc EXCEPT !.bg = "spin"]
    /\ UNCHANGED <<tb, t, ch, stopper, firer, reloader, reloadFuncs, retireFuncs, behav,
                   hist, dead, data, liverOnly, groupVars, libVars>>

\* ------------------------------------------------------ trigger channel
\* a value is sent on the trigger channel
chanSend ==
    /\ dead = "no" /\ tb.taskType = "OnChannel"
    /\ ~ch.closed /\ Len(ch.buf) < ChanCap /\ hist.sent < MaxSend
    /\ ch' = [ch EXCEPT !.buf = Append(@, hist.sent + 1)]
    /\ hist' = [hist EXCEPT !.sent = @ + 1]
    /\ UNCHANGED <<tb, t, pc, stopper, firer, reloader, reloadFuncs, retireFuncs, behav,
                   dead, data, liverOnly, groupVars, libVars>>

\* the owner of the channel closes it (when the behaviour's Retire does not)
chanClose ==
    /\ dead = "no" /\ tb.taskType = "OnChannel"
    /\ ~ch.closed /\ ~behav.retireCloses
    /\ ch' = [ch EXCEPT !.closed = TRUE]
    /\ UNCHANGED <<tb, t, pc, stopper, firer, reloader, reloadFuncs, retireFuncs, behav,
                   hist, dead, data, liverOnly, groupVars, libVars>>

\* ------------------------------------------------------- Task.Stop / stop
\* Stop without onceStop: every caller runs stop()
StopNoOnce(c) ==
    /\ dead = "no" /\ stopper[c].pc = "idle"
    /\ Returned \/ TaskId \in retireFuncs
    /\ t' = [t EXCEPT !.onceStop = "running"]
    /\ stopper' = [stopper EXCEPT ![c].pc = "RetireCancel"]
    /\ hist' = IF hist.stopFirst = "" THEN [hist EXCEPT !.stopFirst = c] ELSE hist
    /\ UNCHANGED <<tb, pc, ch, firer, reloader, reloadFuncs, retireFuncs, behav,
                   dead, data, liverOnly, groupVars, libVars>>

\* Stop: onceStop.Do; the first caller runs stop(), a later one waits for it
Stop(c) ==
    /\ dead = "no" /\ stopper[c].pc = "idle"
    /\ Returned \/ TaskId \in retireFuncs
    /\ IF t.onceStop = "fresh"
       THEN /\ t' = [t EXCEPT !.onceStop = "running"]
            /\ stopper' = [stopper EXCEPT ![c].pc = "RetireCancel"]
       ELSE /\ t' = t
            /\ stopper' = [stopper EXCEPT ![c].pc = "onceWait"]
    /\ hist' = IF hist.stopFirst = "" THEN [hist EXCEPT !.stopFirst = c] ELSE hist
    /\ UNCHANGED <<tb, pc, ch, firer, reloader, reloadFuncs, retireFuncs, behav,
                   dead, data, liverOnly, groupVars, libVars>>

\* Stop of a later caller: onceStop.Do returns once the first stop() has, err is nil
StopOnceDone(c) ==
    /\ dead = "no" /\ stopper[c].pc = "onceWait" /\ t.onceStop = "done"
    /\ stopper' = [stopper EXCEPT ![c] = [pc |-> "returned", err |-> "nil"]]
    /\ UNCHANGED <<tb, t, pc, ch, firer, reloader, reloadFuncs, retireFuncs, behav,
                   hist, dead, data, liverOnly, groupVars, libVars>>

\* stop: RetireCancel(t.id)
stopRetireCancel(c) ==
    /\ dead = "no" /\ stopper[c].pc = "RetireCancel"
    /\ retireFuncs' = retireFuncs \ {TaskId}
    /\ stopper' = [stopper EXCEPT ![c].pc = "ReloadCancel"]
    /\ UNCHANGED <<tb, t, pc, ch, firer, reloader, reloadFuncs, behav,
                   hist, dead, data, liverOnly, groupVars, libVars>>

\* stop: ReloadCancel(t.id)
stopReloadCancel(c) ==
    /\ dead = "no" /\ stopper[c].pc = "ReloadCancel"
    /\ reloadFuncs' = reloadFuncs \ {TaskId}
    /\ stopper' = [stopper EXCEPT ![c].pc = "retireCtx"]
    /\ UNCHANGED <<tb, t, pc, ch, firer, reloader, retireFuncs, behav,
                   hist, dead, data, liverOnly, groupVars, libVars>>

\* stop: t.retire, t.retired = context.WithTimeout(Background, 3s)
stopRetireCtx(c) ==
    /\ dead = "no" /\ stopper[c].pc = "retireCtx"
    /\ t' = [t EXCEPT !.retire = "open"]
    /\ stopper' = [stopper EXCEPT ![c].pc = "die"]
    /\ UNCHANGED <<tb, pc, ch, firer, reloader, reloadFuncs, retireFuncs, behav,
                   hist, dead, data, liverOnly, groupVars, libVars>>

\* stop without t.die(): the life context is left open
stopDieNoCancel(c) ==
    /\ dead = "no" /\ stopper[c].pc = "die"
    /\ stopper' = [stopper EXCEPT ![c].pc = "wait"]
    /\ UNCHANGED <<tb, t, pc, ch, firer, reloader, reloadFuncs, retireFuncs, behav,
                   hist, dead, data, liverOnly, groupVars, libVars>>

\* stop: t.die(), then the switch that defers the trigger's clean-up
\* (tb.Trigger.(net.Listener) of a task whose Listen failed panics)
stopDie(c) ==
    /\ dead = "no" /\ stopper[c].pc = "die"
    /\ t' = [t EXCEPT !.life = "done"]
    /\ IF tb.taskType = "OnTCP" /\ tb.Trigger = "nil"
       THEN dead' = "panic" /\ stopper' = stopper
       ELSE dead' = dead /\ stopper' = [stopper EXCEPT ![c].pc = "wait"]
    /\ UNCHANGED <<tb, pc, ch, firer, reloader, reloadFuncs, retireFuncs, behav,
                   hist, data, liverOnly, groupVars, libVars>>

\* stop: <-t.retire.Done() ends because the loop goroutine called t.retired()
stopRetired(c) ==
    /\ dead = "no" /\ stopper[c].pc = "wait" /\ t.retire = "canceled"
    /\ stopper' = [stopper EXCEPT ![c] = [pc |-> "deferred", err |-> "nil"]]
    /\ UNCHANGED <<tb, t, pc, ch, firer, reloader, reloadFuncs, retireFuncs, behav,
                   hist, dead, data, liverOnly, groupVars, libVars>>

\* stop whose expired bound is reported as success
stopTimeoutSwallowed(c) ==
    /\ dead = "no" /\ stopper[c].pc = "wait" /\ t.retire = "open"
    /\ t' = [t EXCEPT !.retire = "timeout"]
    /\ stopper' = [stopper EXCEPT ![c] = [pc |-> "deferred", err |-> "nil"]]
    /\ UNCHANGED <<tb, pc, ch, firer, reloader, reloadFuncs, retireFuncs, behav,
                   hist, dead, data, liverOnly, groupVars, libVars>>

\* stop: <-t.retire.Done() ends because the 3 s bound expired
stopTimeout(c) ==
    /\ dead = "no" /\ stopper[c].pc = "wait" /\ t.retire = "open"
    /\ t' = [t EXCEPT !.retire = "timeout"]
    /\ stopper' = [stopper EXCEPT ![c] = [pc |-> "deferred", err |-> "timeout"]]
    /\ UNCHANGED <<tb, pc, ch, firer, reloader, reloadFuncs, retireFuncs, behav,
                   hist, dead, data, liverOnly, groupVars, libVars>>

\* stop returning without the deferred Close of the listener / watcher
stopReturnNoClose(c) ==
    /\ dead = "no" /\ stopper[c].pc = "deferred"
    /\ data' = IF tb.taskType = "OnInterval" /\ tb.Argument = 1
               THEN Cancel(data, TaskId) ELSE data
    /\ t' = [t EXCEPT !.onceStop = "done"]
    /\ stopper' = [stopper EXCEPT ![c].pc = "returned"]
    /\ UNCHANGED <<tb, pc, ch, firer, reloader, reloadFuncs, retireFuncs, behav,
                   hist, dead, liverOnly, groupVars, libVars>>

\* stop returns: the deferred Close of the listener / watcher, or LiverCancel
stopReturn(c) ==
    /\ dead = "no" /\ stopper[c].pc = "deferred"
    /\ IF tb.taskType = "OnFsChange" /\ tb.Trigger = "nil"
       THEN /\ dead' = "panic"
            /\ UNCHANGED <<tb, t, stopper, data>>
       ELSE /\ dead' = dead
            /\ tb' = IF tb.taskType \in {"OnTCP", "OnFsChange"}
                     THEN [tb EXCEPT !.Trigger = "closed"] ELSE tb
            /\ data' = IF tb.taskType = "OnInterval" /\ tb.Argument = 1
                       THEN Cancel(data, TaskId) ELSE data
            /\ t' = [t EXCEPT !.onceStop = "done"]
            /\ stopper' = [stopper EXCEPT ![c].pc = "returned"]
    /\ UNCHANGED <<pc, ch, firer, reloader, reloadFuncs, retireFuncs, behav,
                   hist, liverOnly, groupVars, libVars>>

\* ------------------------------------------------------------- Task.Fire
\* Fire without the t.Died() check
FireNoCheck ==
    /\ dead = "no" /\ firer.pc = "idle" /\ Returned
    /\ firer.calls < MaxFire
    /\ firer' = [pc |-> "alive", err |-> "none", calls |-> firer.calls + 1]
    /\ UNCHANGED <<tb, t, pc, ch, stopper, reloader, reloadFuncs, retireFuncs, behav,
                   hist, dead, data, liverOnly, groupVars, libVars>>

\* Fire: if t.Died() return an error
Fire ==
    /\ dead = "no" /\ firer.pc = "idle" /\ Returned
    /\ firer.calls < MaxFire
    /\ IF Died
       THEN firer' = [pc |-> "idle", err |-> "died", calls |-> firer.calls + 1]
       ELSE firer' = [pc |-> "alive", err |-> "none", calls |-> firer.calls + 1]
    /\ UNCHANGED <<tb, t, pc, ch, stopper, reloader, reloadFuncs, retireFuncs, behav,
                   hist, dead, data, liverOnly, groupVars, libVars>>

\* Fire running Schedule synchronously for every task type
FireActSchedules ==
    /\ dead = "no" /\ firer.pc = "alive"
    /\ hist' = SchedBegin(hist, "fire")
    /\ firer' = [firer EXCEPT !.pc = "sched"]
    /\ UNCHANGED <<tb, t, pc, ch, stopper, reloader, reloadFuncs, retireFuncs, behav,
                   dead, data, liverOnly, groupVars, libVars>>

\* Fire that returns without calling t.fire
FireActNoWake ==
    /\ dead = "no" /\ firer.pc = "alive"
    /\ IF tb.taskType = "Manual"
       THEN /\ hist' = SchedBegin(hist, "fire")
            /\ firer' = [firer EXCEPT !.pc = "sched"]
       ELSE /\ hist' = hist
            /\ firer' = [firer EXCEPT !.pc = "idle", !.err = "nil"]
    /\ UNCHANGED <<tb, t, pc, ch, stopper, reloader, reloadFuncs, retireFuncs, behav,
                   dead, data, liverOnly, groupVars, libVars>>

\* Fire: a manual task runs Schedule synchronously; for any other, t.fire (set
\* by the loop for interval and reload-driven naps only) is called if not nil
FireAct ==
    /\ dead = "no" /\ firer.pc = "alive"
    /\ IF tb.taskType = "Manual"
       THEN /\ hist' = SchedBegin(hist, "fire")
            /\ firer' = [firer EXCEPT !.pc = "sched"]
            /\ t' = t
       ELSE /\ hist' = hist
            /\ firer' = [firer EXCEPT !.pc = "idle", !.err = "nil"]
            /\ t' = IF t.fire THEN [t EXCEPT !.nap = CancelNap(@)] ELSE t
    /\ UNCHANGED <<tb, pc, ch, stopper, reloader, reloadFuncs, retireFuncs, behav,
                   dead, data, liverOnly, groupVars, libVars>>

\* Fire of a manual task: Schedule returns, and Fire returns what it returned
FireScheduled ==
    /\ dead = "no" /\ firer.pc = "sched"
    /\ hist' = SchedEnd(hist)
    /\ \E e \in {"nil", "schedErr"} :
        firer' = [firer EXCEPT !.pc = "idle", !.err = e]
    /\ UNCHANGED <<tb, t, pc, ch, stopper, reloader, reloadFuncs, retireFuncs, behav,
                   dead, data, liverOnly, groupVars, libVars>>

\* ----------------------------------------------------------- Task.Reload
\* Reload (direct, or as the callback of the global Reload sweep):
\* mtxReload.Lock, Tasker.Reload(t.life) is entered
Reload ==
    /\ dead = "no" /\ reloader.pc = "idle"
    /\ Returned \/ TaskId \in reloadFuncs
    /\ ~t.mtxReload /\ reloader.calls < MaxReload
    /\ t' = [t EXCEPT !.mtxReload = TRUE]
    /\ hist' = [hist EXCEPT !.reloadCount = @ + 1]
    /\ reloader' = [pc |-> "in", err |-> "none", calls |-> reloader.calls + 1]
    /\ UNCHANGED <<tb, pc, ch, stopper, firer, reloadFuncs, retireFuncs, behav,
                   dead, data, liverOnly, groupVars, libVars>>

\* Reload: Tasker.Reload returned; on success t.fire() wakes the nap; Unlock
Reloaded ==
    /\ dead = "no" /\ reloader.pc = "in"
    /\ \E err \in BOOLEAN :
        /\ IF err
           THEN /\ reloader' = [reloader EXCEPT !.pc = "idle", !.err = "err"]
                /\ t' = [t EXCEPT !.mtxReload = FALSE]
           ELSE /\ reloader' = [reloader EXCEPT !.pc = "idle", !.err = "nil"]
                /\ t' = [t EXCEPT !.mtxReload = FALSE,
                                  !.nap = IF t.fire THEN CancelNap(@) ELSE @]
    /\ UNCHANGED <<tb, pc, ch, stopper, firer, reloadFuncs, retireFuncs, behav,
                   hist, dead, data, liverOnly, groupVars, libVars>>

\* ------------------------------------------------- the liveness watchdog
\* the expiry test with the operands exchanged
ExpiredSwapped(lc, at) ==
    at - lc.last < lc.timeout

\* liver.Schedule: lc.timeout < now.Sub(lc.last)
Expired(lc, at) ==
    lc.timeout < at - lc.last

\* LiverRegister(key, timeout) by a client of the registry
LiverRegister(key, timeout) ==
    /\ dead = "no"
    /\ data' = Register(data, key, timeout)
    /\ lhist' = [lhist EXCEPT !.stable = @ \ {key}, !.cancelled = @ \ {key},
                               !.deadline[key] = 0]
    /\ UNCHANGED <<taskVars, groupVars, libVars, dead, now, scan, fatalKey>>

\* LiverCancel(key) by a client of the registry
LiverCancel(key) ==
    /\ dead = "no"
    /\ data' = Cancel(data, key)
    /\ lhist' = IF data[key] # None /\ now - data[key].last < data[key].timeout
                THEN [lhist EXCEPT !.stable = @ \ {key}, !.cancelled = @ \cup {key},
                                   !.deadline[key] = data[key].last + data[key].timeout]
                ELSE [lhist EXCEPT !.stable = @ \ {key}]
    /\ UNCHANGED <<taskVars, groupVars, libVars, dead, now, scan, fatalKey>>

\* time passes
Tick ==
    /\ dead = "no" /\ now < MaxTime
    /\ now' = now + 1
    /\ UNCHANGED <<taskVars, groupVars, libVars, dead, data, scan, fatalKey, lhist>>

\* liver.Schedule is entered: now := time.Now(), data.Range starts over the keys
\* that are stored at this moment
Schedule ==
    /\ dead = "no" /\ scan.pc = "idle"
    /\ scan' = [pc |-> "Range", now |-> now, todo |-> {k \in AllKeys : data[k] # None}]
    /\ lhist' = [lhist EXCEPT !.stable = {k \in AllKeys : data[k] # None}]
    /\ UNCHANGED <<taskVars, groupVars, libVars, dead, now, data, fatalKey>>

\* liver.Schedule, one call of the Range function: an expired entry starts the
\* Fatal goroutine and ends the Range (return false)
ScheduleRange(key) ==
    /\ dead = "no" /\ scan.pc = "Range" /\ key \in scan.todo
    /\ IF data[key] # None /\ Expired(data[key], scan.now)
       THEN /\ fatalKey' = fatalKey \cup {key}
            /\ scan' = [scan EXCEPT !.todo = {}]
       ELSE /\ fatalKey' = fatalKey
            /\ scan' = [scan EXCEPT !.todo = @ \ {key}]
    /\ UNCHANGED <<taskVars, groupVars, libVars, dead, now, data, lhist>>

\* liver.Schedule: the Range is over, aliveTouch, return
ScheduleDone ==
    /\ dead = "no" /\ scan.pc = "Range" /\ scan.todo = {}
    /\ scan' = [scan EXCEPT !.pc = "idle"]
    /\ lhist' = [lhist EXCEPT !.stable = {}]
    /\ UNCHANGED <<taskVars, groupVars, libVars, dead, now, data, fatalKey>>

\* the goroutine started for an expired entry: Log.Fatal, the process exits
Fatal ==
    /\ dead = "no" /\ fatalKey # {}
    /\ dead' = "fatal"
    /\ UNCHANGED <<taskVars, groupVars, libVars, now, data, scan, fatalKey, lhist>>

\* ------------------------------------- global Reload / Retire and groupRun
\* the registry a batch of this kind runs over
Funcs(kind) ==
    IF kind = "reload" THEN reloadFuncs ELSE retireFuncs

\* groupRun's WaitGroup: the callbacks launched by g that have not returned
Pending(g) ==
    {k \in GroupKeys : g.fn[k] \in {"in", "reenter"}}

\* a batch is in progress from the moment its caller holds the lock until
\* Reload returns, the process exits, or the hang panic unwinds
InProgress(c) ==
    grp[c].pc \in {"Fire", "groupRun", "Range", "Done", "ran"}

\* ReloadRegister(function, key) by a client of the orchestrator
ReloadRegister(key) ==
    /\ dead = "no" /\ key \notin reloadFuncs
    /\ reloadFuncs' = reloadFuncs \cup {key}
    /\ UNCHANGED <<tb, t, pc, ch, stopper, firer, reloader, retireFuncs, behav,
                   hist, dead, data, liverOnly, groupVars, libVars>>

\* ReloadCancel(key) by a client of the orchestrator
ReloadCancel(key) ==
    /\ dead = "no" /\ key \in reloadFuncs
    /\ reloadFuncs' = reloadFuncs \ {key}
    /\ UNCHANGED <<tb, t, pc, ch, stopper, firer, reloader, retireFuncs, behav,
                   hist, dead, data, liverOnly, groupVars, libVars>>

\* RetireRegister(function, key) by a client of the orchestrator
RetireRegister(key) ==
    /\ dead = "no" /\ key \notin retireFuncs
    /\ retireFuncs' = retireFuncs \cup {key}
    /\ UNCHANGED <<tb, t, pc, ch, stopper, firer, reloader, reloadFuncs, behav,
                   hist, dead, data, liverOnly, groupVars, libVars>>

\* RetireCancel(key) by a client of the orchestrator
RetireCancel(key) ==
    /\ dead = "no" /\ key \in retireFuncs
    /\ retireFuncs' = retireFuncs \ {key}
    /\ UNCHANGED <<tb, t, pc, ch, stopper, firer, reloader, reloadFuncs, behav,
                   hist, dead, data, liverOnly, groupVars, libVars>>

\* a goroutine calls the global Reload(): it arrives at reloadMtx.Lock()
ReloadCall(c) ==
    /\ dead = "no" /\ grp[c].pc = "idle"
    /\ grp' = [grp EXCEPT ![c].pc = "Lock", ![c].kind = "reload"]
    /\ UNCHANGED <<taskVars, dead, data, liverOnly, libVars, mtx>>

\* a goroutine calls the global Retire(code): it arrives at retireMtx.Lock()
RetireCall(c) ==
    /\ dead = "no" /\ grp[c].pc = "idle"
    /\ grp' = [grp EXCEPT ![c].pc = "Lock", ![c].kind = "retire"]
    /\ UNCHANGED <<taskVars, dead, data, liverOnly, libVars, mtx>>

\* Lock that does not wait for the holder
MtxLockNoWait(c) ==
    /\ dead = "no" /\ grp[c].pc = "Lock"
    /\ mtx' = [mtx EXCEPT ![grp[c].kind] = c]
    /\ grp' = [grp EXCEPT ![c].pc = IF grp[c].kind = "reload" THEN "Fire" ELSE "groupRun"]
    /\ UNCHANGED <<taskVars, dead, data, liverOnly, libVars>>

\* Reload / Retire: the Lock() of reloadMtx / retireMtx is granted
MtxLock(c) ==
    /\ dead = "no" /\ grp[c].pc = "Lock"
    /\ mtx[grp[c].kind] = ""
    /\ mtx' = [mtx EXCEPT ![grp[c].kind] = c]
    /\ grp' = [grp EXCEPT ![c].pc = IF grp[c].kind = "reload" THEN "Fire" ELSE "groupRun"]
    /\ UNCHANGED <<taskVars, dead, data, liverOnly, libVars>>

\* Reload: conferTaskInstance.Fire() and loggerTaskInstance.Fire() (manual
\* tasks: their Schedule runs synchronously and its error is dropped)
ReloadFire(c) ==
    /\ dead = "no" /\ grp[c].pc = "Fire"
    /\ grp' = [grp EXCEPT ![c].pc = "groupRun"]
    /\ UNCHANGED <<taskVars, dead, data, liverOnly, libVars, mtx>>

\* groupRun is entered: functions.Range starts over the keys stored now
groupRun(c) ==
    /\ dead = "no" /\ grp[c].pc = "groupRun"
    /\ grp' = [grp EXCEPT ![c].pc = "Range",
                          ![c].todo = Funcs(grp[c].kind),
                          ![c].snap = Funcs(grp[c].kind)]
    /\ UNCHANGED <<taskVars, dead, data, liverOnly, libVars, mtx>>

\* Range that stops launching once a callback has returned an error
groupRunRangeAborts(c, key) ==
    /\ dead = "no" /\ grp[c].pc = "Range" /\ key \in grp[c].todo
    /\ IF key \in Funcs(grp[c].kind)
       THEN IF \E k \in GroupKeys : grp[c].fn[k] = "err"
            THEN grp' = [grp EXCEPT ![c].todo = @ \ {key}]
            ELSE grp' = [grp EXCEPT ![c].todo = @ \ {key},
                                    ![c].functionStatus[key] = "false",
                                    ![c].fn[key] = "in"]
       ELSE grp' = [grp EXCEPT ![c].todo = @ \ {key},
                               ![c].skipped = @ \cup {key}]
    /\ UNCHANGED <<taskVars, dead, data, liverOnly, libVars, mtx>>

\* groupRun, one call of the Range function: wg.Add(1), functionStatus.Store(key,
\* false), go func() whose first act is the call fn(); an entry deleted since the
\* Range began is not visited
groupRunRange(c, key) ==
    /\ dead = "no" /\ grp[c].pc = "Range" /\ key \in grp[c].todo
    /\ IF key \in Funcs(grp[c].kind)
       THEN grp' = [grp EXCEPT ![c].todo = @ \ {key},
                               ![c].functionStatus[key] = "false",
                               ![c].fn[key] = "in"]
       ELSE grp' = [grp EXCEPT ![c].todo = @ \ {key},
                               ![c].skipped = @ \cup {key}]
    /\ UNCHANGED <<taskVars, dead, data, liverOnly, libVars, mtx>>

\* groupRun: the Range is over; context.WithTimeout(Background, timeout) and the
\* goroutine that waits for the WaitGroup; the caller blocks on <-ctx.Done()
groupRunCtx(c) ==
    /\ dead = "no" /\ grp[c].pc = "Range" /\ grp[c].todo = {}
    /\ grp' = [grp EXCEPT ![c].pc = "Done", ![c].ctx = "open"]
    /\ UNCHANGED <<taskVars, dead, data, liverOnly, libVars, mtx>>

\* fn() returns, with an error or without: the error is logged as a warning,
\* functionStatus.Store(key, true), wg.Done()
fnReturn(c, key) ==
    /\ dead = "no" /\ grp[c].fn[key] = "in"
    /\ \E err \in BOOLEAN :
        grp' = [grp EXCEPT ![c].fn[key] = IF err THEN "err" ELSE "ok",
                           ![c].functionStatus[key] = "true"]
    /\ UNCHANGED <<taskVars, dead, data, liverOnly, libVars, mtx>>

\* a running callback itself calls the global Reload() or Retire()
fnReenter(c, key, c2, kind) ==
    /\ dead = "no" /\ grp[c].fn[key] = "in" /\ c2 # c /\ grp[c2].pc = "idle"
    /\ grp' = [grp EXCEPT ![c].fn[key] = "reenter",
                          ![c2].pc = "Lock", ![c2].kind = kind,
                          ![c2].parent = <<c, key>>]
    /\ UNCHANGED <<taskVars, dead, data, liverOnly, libVars, mtx>>

\* the call made by a callback has returned to it (or its panic was
\* recovered by the callback), and the callback goes on
fnReentered(c, key) ==
    /\ dead = "no" /\ grp[c].fn[key] = "reenter"
    /\ \E c2 \in GroupCallers :
        /\ grp[c2].parent = <<c, key>>
        /\ grp[c2].pc \in {"returned", "panicked"}
        /\ grp' = [grp EXCEPT ![c].fn[key] = "in",
                              ![c2].pc = IF @ = "returned" THEN "idle" ELSE @,
                              ![c2].parent = <<>>]
    /\ UNCHANGED <<taskVars, dead, data, liverOnly, libVars, mtx>>

\* groupRun's goroutine: wg.Wait() returns, cancel()
groupRunWait(c) ==
    /\ dead = "no" /\ grp[c].ctx = "open" /\ Pending(grp[c]) = {}
    /\ grp' = [grp EXCEPT ![c].ctx = "canceled"]
    /\ UNCHANGED <<taskVars, dead, data, liverOnly, libVars, mtx>>

\* the timeout of groupRun's context elapses
groupRunTimeout(c) ==
    /\ dead = "no" /\ grp[c].ctx = "open"
    /\ grp' = [grp EXCEPT ![c].ctx = "timeout", ![c].late = Pending(grp[c]) # {}]
    /\ UNCHANGED <<taskVars, dead, data, liverOnly, libVars, mtx>>

\* groupRun that returns whatever ended the wait
groupRunDoneIgnoresHang(c) ==
    /\ dead = "no" /\ grp[c].pc = "Done" /\ grp[c].ctx \in {"canceled", "timeout"}
    /\ grp' = [grp EXCEPT ![c].pc = "ran"]
    /\ UNCHANGED <<taskVars, dead, data, liverOnly, libVars, mtx>>

\* groupRun: <-ctx.Done() is over. Cancelled: return. Otherwise every entry of
\* functionStatus is logged and logrus Panic: the deferred Unlock runs, and the
\* panic ends the process unless the caller of Reload / Retire recovers it
\* (the locals of groupRun are gone; callbacks still running are abandoned)
groupRunDone(c) ==
    /\ dead = "no" /\ grp[c].pc = "Done" /\ grp[c].ctx \in {"canceled", "timeout"}
    /\ IF grp[c].ctx = "canceled"
       THEN /\ grp' = [grp EXCEPT ![c].pc = "ran"]
            /\ UNCHANGED <<dead, mtx>>
       ELSE \E recovered \in BOOLEAN :
            /\ grp' = [grp EXCEPT ![c] = [NoCall EXCEPT !.pc = "panicked",
                                          !.kind = grp[c].kind, !.parent = grp[c].parent,
                                          !.ctx = "timeout", !.late = grp[c].late,
                                          !.logged = TRUE]]
            /\ mtx' = [mtx EXCEPT ![grp[c].kind] = ""]
            /\ dead' = IF recovered THEN dead ELSE "panic"
    /\ UNCHANGED <<taskVars, data, liverOnly, libVars>>

\* Reload: groupRun returned, reloadAt = time.Now(), the deferred Unlock; the
\* locals of groupRun are gone and the goroutine is free to call again
ReloadReturn(c) ==
    /\ dead = "no" /\ grp[c].pc = "ran" /\ grp[c].kind = "reload"
    /\ grp' = [grp EXCEPT ![c] = [NoCall EXCEPT !.parent = grp[c].parent,
                                  !.pc = IF grp[c].parent = <<>> THEN "idle" ELSE "returned"]]
    /\ mtx' = [mtx EXCEPT !["reload"] = ""]
    /\ UNCHANGED <<taskVars, dead, data, liverOnly, libVars>>

\* Retire: groupRun returned, os.Exit(code)
RetireExit(c) ==
    /\ dead = "no" /\ grp[c].pc = "ran" /\ grp[c].kind = "retire"
    /\ dead' = "exit"
    /\ UNCHANGED <<taskVars, data, liverOnly, groupVars, libVars>>

Next ==
    \/ newTaskReload
    \/ newTaskReloaded
    \/ start
    \/ startScheduled
    \/ startRun
    \/ startRunDone
    \/ startGo
    \/ startRetireRegister
    \/ startReloadRegister
    \/ routineNap
    \/ routineFire
    \/ routineScheduled
    \/ routineRetire
    \/ routineRetired
    \/ napTimeout
    \/ setSleep
    \/ bgAccept
    \/ bgAcceptError
    \/ bgRecv
    \/ bgRecvClosed
    \/ bgFsEvent
    \/ bgFsSpin
    \/ chanSend
    \/ chanClose
    \/ \E c \in Callers : Stop(c)
    \/ \E c \in Callers : StopOnceDone(c)
    \/ \E c \in Callers : stopRetireCancel(c)
    \/ \E c \in Callers : stopReloadCancel(c)
    \/ \E c \in Callers : stopRetireCtx(c)
    \/ \E c \in Callers : stopDie(c)
    \/ \E c \in Callers : stopRetired(c)
    \/ \E c \in Callers : stopTimeout(c)
    \/ \E c \in Callers : stopReturn(c)
    \/ Fire
    \/ FireAct
    \/ FireScheduled
    \/ Reload
    \/ Reloaded

Spec ==
    Init /\ [][Next]_vars

\* a channel-driven task with the senders of its channel and the callers of
\* Stop(); the goroutines of the process are scheduled fairly and the
\* behaviour's Schedule and Retire return
ChanInit ==
    Init /\ tb.taskType = "OnChannel"

ChanCtor ==
    \/ newTaskReload
    \/ newTaskReloaded
    \/ start
    \/ startRun
    \/ startRunDone
    \/ startGo
    \/ startRetireRegister
    \/ startReloadRegister

ChanRoutine ==
    \/ routineNap
    \/ routineFire
    \/ routineScheduled
    \/ routineRetire
    \/ routineRetired

ChanBg ==
    \/ bgRecv
    \/ bgRecvClosed

ChanNext ==
    \/ ChanCtor
    \/ ChanRoutine
    \/ ChanBg
    \/ chanSend
    \/ chanClose
    \/ \E c \in Callers : Stop(c)
    \/ \E c \in Callers : StopOnceDone(c)
    \/ \E c \in Callers : stopRetireCancel(c)
    \/ \E c \in Callers : stopReloadCancel(c)
    \/ \E c \in Callers : stopRetireCtx(c)
    \/ \E c \in Callers : stopDie(c)
    \/ \E c \in Callers : stopRetired(c)
    \/ \E c \in Callers : stopTimeout(c)
    \/ \E c \in Callers : stopReturn(c)

ChanFairSpec ==
    /\ ChanInit /\ [][ChanNext]_vars
    /\ WF_vars(ChanCtor) /\ WF_vars(ChanRoutine) /\ WF_vars(ChanBg)

\* a TCP-accept task, or a channel-driven task whose Retire closes the channel,
\* with callers of Stop(); the goroutines of the task run under weak fairness
\* (constructor, loop, trigger wait), and a Stop() under way gets to its return
TriggerInit ==
    /\ Init
    /\ tb.taskType = "OnTCP" \/ (tb.taskType = "OnChannel" /\ behav.retireCloses)

TriggerBg ==
    \/ bgAccept
    \/ bgAcceptError
    \/ bgRecv
    \/ bgRecvClosed

TriggerStop ==
    \/ \E c \in Callers : StopOnceDone(c)
    \/ \E c \in Callers : stopRetireCancel(c)
    \/ \E c \in Callers : stopReloadCancel(c)
    \/ \E c \in Callers : stopRetireCtx(c)
    \/ \E c \in Callers : stopDie(c)
    \/ \E c \in Callers : stopRetired(c)
    \/ \E c \in Callers : stopTimeout(c)
    \/ \E c \in Callers : stopReturn(c)

TriggerNext ==
    \/ ChanCtor
    \/ ChanRoutine
    \/ TriggerBg
    \/ chanSend
    \/ \E c \in Callers : Stop(c)
    \/ TriggerStop

TriggerFairSpec ==
    /\ TriggerInit /\ [][TriggerNext]_vars
    /\ WF_vars(ChanCtor) /\ WF_vars(ChanRoutine) /\ WF_vars(TriggerBg)
    /\ WF_vars(TriggerStop)

\* the watchdog with the clients of its registry; the task is the liver's own
\* interval task (NewTaskOnInterval(liverInstance, "liver", 10s, false))
LiverInit ==
    /\ InitTask /\ InitLiver /\ InitNoGroup /\ InitNoLib
    /\ tb.taskType = "OnInterval" /\ tb.Argument = 0

LiverNext ==
    \/ \E key \in LiverKeys, timeout \in 1..MaxTimeout : LiverRegister(key, timeout)
    \/ \E key \in LiverKeys : LiverCancel(key)
    \/ Tick
    \/ Schedule
    \/ \E key \in AllKeys : ScheduleRange(key)
    \/ ScheduleDone
    \/ Fatal

LiverSpec ==
    LiverInit /\ [][LiverNext]_vars

\* the orchestrator with the clients of its registries and the goroutines
\* that call the global Reload() and Retire(): the steps of the goroutine
\* that called (a callback may never return)
GroupMain(c) ==
    \/ MtxLock(c)
    \/ ReloadFire(c)
    \/ groupRun(c)
    \/ \E key \in GroupKeys : groupRunRange(c, key)
    \/ groupRunCtx(c)
    \/ groupRunWait(c)
    \/ groupRunDone(c)
    \/ ReloadReturn(c)
    \/ RetireExit(c)

GroupNext ==
    \/ \E key \in GroupKeys : ReloadRegister(key)
    \/ \E key \in GroupKeys : ReloadCancel(key)
    \/ \E key \in GroupKeys : RetireRegister(key)
    \/ \E key \in GroupKeys : RetireCancel(key)
    \/ \E c \in GroupCallers : ReloadCall(c)
    \/ \E c \in GroupCallers : RetireCall(c)
    \/ \E c \in GroupCallers : GroupMain(c)
    \/ \E c \in GroupCallers : groupRunTimeout(c)
    \/ \E c \in GroupCallers, key \in GroupKeys : fnReturn(c, key)
    \/ \E c, c2 \in GroupCallers, key \in GroupKeys, kind \in Kinds : fnReenter(c, key, c2, kind)
    \/ \E c \in GroupCallers, key \in GroupKeys : fnReentered(c, key)

GroupInit ==
    /\ InitTask /\ InitLiver /\ InitNoLib
    /\ mtx = [k \in Kinds |-> ""] /\ grp = [c \in GroupCallers |-> NoCall]
    /\ tb.taskType = "Manual" /\ ~tb.Immediately

GroupSpec ==
    GroupInit /\ [][GroupNext]_vars

\* one batch seen from its caller: the clients of the registries, one goroutine
\* calling Reload() or Retire() again and again, its callbacks and the timer
HangCaller == "g1"

HangNext ==
    \/ \E key \in GroupKeys : ReloadRegister(key)
    \/ \E key \in GroupKeys : ReloadCancel(key)
    \/ \E key \in GroupKeys : RetireRegister(key)
    \/ \E key \in GroupKeys : RetireCancel(key)
    \/ ReloadCall(HangCaller)
    \/ RetireCall(HangCaller)
    \/ GroupMain(HangCaller)
    \/ groupRunTimeout(HangCaller)
    \/ \E key \in GroupKeys : fnReturn(HangCaller, key)

HangSpec ==
    /\ GroupInit /\ [][HangNext]_vars
    /\ WF_vars(GroupMain(HangCaller)) /\ WF_vars(groupRunTimeout(HangCaller))

\* ------------------------------------------- the interval task on the clock
\* an interval task with the clock, the expiry of its nap at napAt + Period, the
\* callers of Stop() and the watchdog scan. The goroutines' own steps take no
\* time: time passes while the loop naps and while Schedule or Retire runs.
\* last clock value: past the liveness deadline 4 * Period of the first nap
Horizon ==
    4 * Period + 2

\* a deadline of twice the recurring duration
NapEndsDouble ==
    t.napAt + 2 * Period

\* the deadline of the nap of an active interval task: context.WithTimeout(
\* Background, tb.Trigger) at the clock value napAt
NapEnds ==
    t.napAt + Period

\* a step that is due now: the clock does not advance before it is taken
Due ==
    \/ pc.ctor \notin {"schedRun", "done", "failed"}
    \/ pc.routine = "top"
    \/ pc.routine = "select" /\ (t.nap = "done" \/ Died)
    \/ t.nap = "timed" /\ NapEnds <= now

\* time passes, by one clock unit
IntervalTick ==
    /\ dead = "no" /\ now < Horizon /\ ~Due
    /\ now' = now + 1
    /\ UNCHANGED <<taskVars, groupVars, libVars, dead, data, scan, fatalKey, lhist>>

\* the deadline of the nap is reached: t.nap is done
napDeadline ==
    /\ dead = "no" /\ tb.taskType = "OnInterval" /\ t.nap = "timed"
    /\ NapEnds <= now
    /\ t' = [t EXCEPT !.nap = "done"]
    /\ UNCHANGED <<tb, pc, ch, stopper, firer, reloader, reloadFuncs, retireFuncs, behav,
                   hist, dead, data, liverOnly, groupVars, libVars>>

IntervalInit ==
    Init /\ tb.taskType = "OnInterval"

IntervalNext ==
    \/ ChanCtor
    \/ ChanRoutine
    \/ napDeadline
    \/ IntervalTick
    \/ Stop("c1")
    \/ stopRetireCancel("c1")
    \/ stopReloadCancel("c1")
    \/ stopRetireCtx("c1")
    \/ stopDie("c1")
    \/ stopRetired("c1")
    \/ stopTimeout("c1")
    \/ stopReturn("c1")
    \/ Schedule
    \/ \E key \in AllKeys : ScheduleRange(key)
    \/ ScheduleDone
    \/ Fatal

IntervalSpec ==
    IntervalInit /\ [][IntervalNext]_vars

\* ---------------------------------------------------------------- claims
\* C1: for a task of every trigger type, once Stop() has returned to a caller,
\* Died() returns true.
C1_StoppedIsDied ==
    \A c \in Callers : stopper[c].pc = "returned" => Died

\* C1 witness: Stop() has returned nil for a TCP task whose loop retired
C1_Witness ==
    /\ tb.taskType = "OnTCP"
    /\ \E c \in Callers : stopper[c].pc = "returned" /\ stopper[c].err = "nil"
    /\ pc.routine = "exit"

\* C2: a second Stop(), issued after the first returned or while it runs, returns
\* no error, stop() is run by one caller only and Retire is not run again.
C2_StopIdempotent ==
    /\ \A c \in Callers :
          stopper[c].pc = "returned" /\ c # hist.stopFirst => stopper[c].err = "nil"
    /\ \A c \in Callers :
          stopper[c].pc \notin {"idle", "onceWait", "returned"} => c = hist.stopFirst
    /\ hist.retireCount <= 1

\* C2 witness: both callers have returned from Stop(), the first with its result,
\* the second with nil, and Retire has run once
C2_Witness ==
    /\ \A c \in Callers : stopper[c].pc = "returned"
    /\ \E c \in Callers : c # hist.stopFirst /\ stopper[c].err = "nil"
    /\ hist.retireCount = 1

\* C3: the behaviour's Retire is never run twice, and the loop goroutine never
\* leaves (returns, or panics on its way out) without having run it once.
C3_RetireExactlyOnce ==
    /\ hist.retireCount <= 1
    /\ pc.routine \in {"retire", "exit"} => hist.retireCount = 1
    /\ hist.retireCount = 1 => pc.routine \in {"retire", "exit"}

\* C3 witness: a channel task whose channel is closed and on which two callers
\* called Stop() has left its loop
C3_Witness ==
    /\ tb.taskType = "OnChannel" /\ ch.closed
    /\ pc.routine = "exit"
    /\ \A c \in Callers : stopper[c].pc # "idle"

\* C4: for an interval task at most one Schedule call is executing at any time.
C4_NoConcurrentSchedule ==
    tb.taskType = "OnInterval" => hist.running <= 1

\* C4 witness: a loop Schedule of an interval task is executing after the
\* immediate run, while Fire() and Reload() have been called and returned nil
C4_Witness ==
    /\ tb.taskType = "OnInterval" /\ hist.running = 1
    /\ Len(hist.schedLog) >= 2
    /\ hist.schedLog[1].by = "start"
    /\ pc.routine = "sched"
    /\ firer.calls >= 1 /\ firer.err = "nil"
    /\ reloader.calls >= 1 /\ reloader.err = "nil"

\* the arguments seen by the Schedule calls of the loop, in call order
LoopArgs ==
    LET calls == SelectSeq(hist.schedLog, LAMBDA e : e.by = "loop")
    IN  [i \in 1..Len(calls) |-> calls[i].arg]

IsPrefix(a, b) ==
    /\ Len(a) <= Len(b)
    /\ \A i \in 1..Len(a) : a[i] = b[i]

\* the loop goroutine has left its loop
LoopEnded ==
    pc.routine \in {"retire", "exit"}

\* C5 as stated: the K values a channel task received while it was alive have
\* produced exactly K Schedule calls of the loop, the i-th with the i-th value.
C5_Original ==
    tb.taskType = "OnChannel" /\ LoopEnded
        => LoopArgs = SubSeq(hist.received, 1, hist.recvLive)

\* C5 amended: the loop's Schedule calls see the received values in delivery
\* order, none skipped, duplicated or overwritten; all K received values are
\* scheduled when the lifetime ends by closure of the channel without Stop(),
\* and all but at most the last one when Stop() cancels the lifetime.
C5_InOrderAtMostLastDropped ==
    tb.taskType = "OnChannel" =>
        /\ IsPrefix(LoopArgs, hist.received)
        /\ Len(hist.received) - Len(LoopArgs) <= 1
        /\ LoopEnded /\ t.onceStop = "fresh" => LoopArgs = hist.received

\* C5 witness: two values were received, both scheduled in order, and the loop
\* ended by closure of the channel
C5_Witness ==
    /\ tb.taskType = "OnChannel" /\ LoopEnded /\ t.onceStop = "fresh"
    /\ hist.received = <<1, 2>> /\ LoopArgs = <<1, 2>>
    /\ ch.closed

\* C6 as stated: the lifetime of a channel task is never over while its channel
\* is open.
C6_Original ==
    tb.taskType = "OnChannel" /\ Died => ch.closed

\* C6 amended: closing the channel always ends the lifetime (once the values
\* still buffered are scheduled), and the lifetime ends for no other reason
\* than the observed closure or a Stop() call, which ends it with the channel
\* still open.
C6_ClosureOrStopEndsLife ==
    /\ [](Died => (ch.closed /\ ch.buf = <<>>) \/ t.onceStop # "fresh")
    /\ (ch.closed ~> (Died \/ dead # "no"))

\* C6 witness: the channel was closed by its owner, the lifetime ended without
\* any Stop() call and Retire has run
C6_Witness ==
    /\ ch.closed /\ Died /\ t.onceStop = "fresh"
    /\ hist.retireCount = 1

\* the Schedule calls not made by Fire()
NonFireCalls ==
    SelectSeq(hist.schedLog, LAMBDA e : e.by # "fire")

FireCalls ==
    SelectSeq(hist.schedLog, LAMBDA e : e.by = "fire")

\* C7: a manual task constructed with the immediate flag has had Schedule run
\* exactly once by its construction, and every other Schedule call is made by
\* a Fire() call: none by Reload(), by the global sweeps or by a loop.
C7_ManualImmediateOnce ==
    tb.taskType = "Manual" /\ tb.Immediately /\ pc.ctor = "done" =>
        /\ Len(NonFireCalls) = 1
        /\ hist.schedLog[1].by = "start"
        /\ Len(FireCalls) <= firer.calls
        /\ pc.routine = "none"

\* C7 witness: Reload() has succeeded on the constructed manual task, Fire()
\* was not called, and the construction's Schedule call is still the only one
C7_Witness ==
    /\ tb.taskType = "Manual" /\ tb.Immediately /\ pc.ctor = "done"
    /\ reloader.calls >= 1 /\ reloader.err = "nil"
    /\ firer.calls = 0
    /\ Len(hist.schedLog) = 1 /\ hist.running = 0

\* C8: a Fire() call made on a task whose lifetime is over returns an error at
\* once, starts no Schedule call and leaves the nap as it is.
C8_FireOnDead ==
    [][(firer'.calls = firer.calls + 1 /\ Died) =>
          /\ firer'.pc = "idle" /\ firer'.err = "died"
          /\ hist'.schedLog = hist.schedLog
          /\ t'.nap = t.nap]_vars

\* C8 witness: Fire() has returned its error on a stopped task whose loop is
\* still in a nap that a cancel would have ended
C8_Witness ==
    /\ Died /\ firer.err = "died" /\ firer.pc = "idle"
    /\ t.nap \in {"open", "timed"} /\ t.fire
    /\ pc.routine = "select"

\* the running scan has called the Range function for every key it had to
RangeOver ==
    scan.pc = "Range" /\ scan.todo = {}

\* key was stored before the running scan began, was not registered again or
\* cancelled since, and its timeout had elapsed when the scan began
OverdueAtScan(key) ==
    /\ key \in lhist.stable
    /\ data[key] # None
    /\ scan.now - data[key].last > data[key].timeout

\* C9 as stated: the scan that begins after the deadline of a key takes the
\* fatal path for that key, whatever other keys are in the registry.
C9_Original ==
    RangeOver => \A key \in LiverKeys : OverdueAtScan(key) => key \in fatalKey

\* C9 amended: the scan that begins after the deadline of a key takes the fatal
\* path: Fatal is issued, for that key or for another key found expired by the
\* watchdog (the Range ends at the first expired entry it meets).
C9_OverdueIsFatal ==
    RangeOver =>
        \A key \in LiverKeys : OverdueAtScan(key) => fatalKey # {}

\* C9 witness: a scan over two registered keys, one overdue and one not, has
\* issued Fatal for the overdue one
C9_Witness ==
    /\ RangeOver
    /\ OverdueAtScan("k1") /\ fatalKey = {"k1"}
    /\ data["k2"] # None /\ ~OverdueAtScan("k2")

\* C10: Fatal is never issued for a key that was cancelled before its timeout
\* had elapsed (and was not registered again).
C10_CancelledNeverFatal ==
    [][\A key \in LiverKeys :
          key \notin fatalKey /\ key \in fatalKey' => key \notin lhist.cancelled]_vars

\* C10 witness: a key was cancelled in time, a scan that began after the
\* deadline it had is over, and no Fatal was issued
C10_Witness ==
    /\ RangeOver /\ fatalKey = {}
    /\ \E key \in LiverKeys :
          /\ key \in lhist.cancelled
          /\ scan.now > lhist.deadline[key]
          /\ data[key] = None

\* the callbacks that c's batch has invoked and that have returned
Returned_fn(c) ==
    {k \in GroupKeys : grp[c].fn[k] \in {"ok", "err"}}

\* C11 as stated: when a global Reload() batch has completed, every callback that
\* was registered when the sweep started has been invoked (and has returned),
\* whether or not some returned errors.
C11_Original ==
    \A c \in GroupCallers :
        grp[c].pc = "ran" /\ grp[c].kind = "reload" => grp[c].snap \subseteq Returned_fn(c)

\* C11 (amended): in a global Reload() batch a callback that returns an error
\* does not abort or fail the batch: every callback registered when the sweep
\* starts and still registered when the sweep reaches it is invoked, and once
\* all launched callbacks have returned before the timeout elapsed, Reload()
\* completes normally, whether or not some returned errors.
C11_ErrorDoesNotAbortBatch ==
    /\ [](\A c \in GroupCallers :
            /\ grp[c].pc \in {"Done", "ran"} /\ grp[c].kind = "reload" =>
                    \A k \in grp[c].snap \ grp[c].skipped : grp[c].fn[k] # "none"
            /\ grp[c].pc = "ran" /\ grp[c].kind = "reload" =>
                    grp[c].snap \ grp[c].skipped \subseteq Returned_fn(c))
    /\ [][\A c \in GroupCallers :
            grp[c].kind = "reload" /\ grp[c].pc = "Done" /\ grp[c].ctx = "canceled"
            /\ grp'[c] # grp[c] => grp'[c].pc = "ran" /\ dead' = "no"]_vars

C11_Witness ==
    \E c \in GroupCallers :
        /\ grp[c].pc = "ran" /\ grp[c].kind = "reload"
        /\ grp[c].snap = GroupKeys /\ grp[c].skipped = {}
        /\ \E k1, k2 \in GroupKeys : grp[c].fn[k1] = "err" /\ grp[c].fn[k2] = "ok"

\* C12: in a global Reload() / Retire() batch, if a launched callback has not
\* returned when the batch timeout elapses, the hang path is taken: the batch
\* never returns normally, the panic comes after the completion statuses have
\* been logged, and the caller never waits forever on the hung callback.
C12_HangIsFatal ==
    /\ [](\A c \in GroupCallers :
            /\ grp[c].ctx = "timeout" /\ grp[c].late => grp[c].pc \in {"Done", "panicked"}
            /\ grp[c].pc = "panicked" => grp[c].logged /\ mtx[grp[c].kind] # c)
    /\ \A c \in GroupCallers :
            grp[c].pc = "Done" ~> (grp[c].pc # "Done" \/ dead # "no")
    /\ \A c \in GroupCallers :
            (grp[c].ctx = "timeout" /\ grp[c].late) ~> (grp[c].pc = "panicked" \/ dead # "no")

C12_Witness ==
    \E c \in GroupCallers :
        /\ grp[c].pc = "panicked" /\ grp[c].kind = "retire"
        /\ grp[c].late /\ grp[c].logged /\ dead = "panic"

\* C13: in every reachable state of the running process, a key present in the
\* reload-callback or the retire-callback registry belongs to a task whose
\* lifetime has not ended (no entry outlives its task).
C13_NoEntryOutlivesTask ==
    dead = "no" /\ TaskId \in reloadFuncs \cup retireFuncs => ~Died

\* the caller whose Stop() runs stop(): the first to reach onceStop.Do
RanStop(c) ==
    hist.stopFirst = c /\ stopper[c].pc \in {"deferred", "returned"}

\* C14 as stated: Stop() returns nil to a caller only if retire completed within
\* the bound.
C14_Original ==
    \A c \in Callers :
        stopper[c].pc = "returned" /\ stopper[c].err = "nil" =>
            t.retire = "canceled" /\ hist.retireCount = 1

\* C14 (amended): the call of Stop() that performs the stop is bounded. If the
\* loop goroutine's retire has not completed when the bound expires, that call
\* stops waiting and returns a timeout error; it returns nil only if retire
\* completed within the bound; the expiry does not terminate the process.
C14_StopIsBounded ==
    /\ [](\A c \in Callers : RanStop(c) =>
            /\ stopper[c].err \in {"nil", "timeout"}
            /\ stopper[c].err = "nil" => t.retire = "canceled" /\ hist.retireCount = 1
            /\ stopper[c].err = "timeout" => t.retire = "timeout")
    /\ [][\A c \in Callers :
            stopper[c].pc = "wait" /\ t.retire = "open" /\ t'.retire = "timeout" =>
                /\ stopper'[c] = [pc |-> "deferred", err |-> "timeout"]
                /\ dead' = "no"]_vars

C14_Witness ==
    \E c \in Callers :
        /\ RanStop(c) /\ stopper[c].pc = "returned" /\ stopper[c].err = "timeout"
        /\ pc.routine = "sched" /\ hist.retireCount = 0 /\ dead = "no"

\* C15: at no time are two global Reload batches in progress, nor two Retire
\* batches: the batch in progress holds the lock of its kind, and a call of
\* the same kind made meanwhile (also one made from inside a callback of the
\* running batch) stays blocked at the lock.
C15_BatchesMutuallyExclusive ==
    /\ \A c1, c2 \in GroupCallers :
            InProgress(c1) /\ InProgress(c2) /\ grp[c1].kind = grp[c2].kind => c1 = c2
    /\ \A c \in GroupCallers : InProgress(c) => mtx[grp[c].kind] = c
    /\ \A c, c2 \in GroupCallers :
            InProgress(c) /\ c2 # c /\ grp[c2].kind = grp[c].kind
            /\ grp[c2].pc \notin {"idle", "returned", "panicked"} => grp[c2].pc = "Lock"

C15_Witness ==
    \E c, c2 \in GroupCallers, key \in GroupKeys :
        /\ InProgress(c) /\ grp[c].fn[key] = "reenter"
        /\ grp[c2].parent = <<c, key>> /\ grp[c2].kind = grp[c].kind
        /\ grp[c2].pc = "Lock"

\* C16: if the behaviour's reload returns an error at construction time, the
\* process takes the fatal path and the task never starts: no schedule call, no
\* loop goroutine, no trigger goroutine, nothing registered for the task.
C16_CtorReloadErrorIsFatal ==
    hist.ctorReloadErr =>
        /\ dead = "fatal" /\ pc.ctor = "reloading"
        /\ hist.schedLog = <<>> /\ hist.running = 0
        /\ pc.routine = "none" /\ pc.bg = "none"
        /\ TaskId \notin reloadFuncs \cup retireFuncs

C16_Witness ==
    hist.ctorReloadErr /\ dead = "fatal" /\ hist.reloadCount = 1

\* the loop is waiting for the type's own trigger: its nap is neither woken nor
\* expired and the lifetime is not cancelled
WaitingForTrigger ==
    pc.routine = "select" /\ t.nap \in {"open", "timed"} /\ ~Died

\* C17: a successful Reload() on a live interval or reload-driven task (never put
\* to sleep) wakes the loop, so that a schedule call by the loop follows without
\* waiting for the trigger: once such a Reload() has returned nil, the loop is
\* not found waiting for its trigger without having made any schedule call.
C17_ReloadWakesLoop ==
    /\ tb.taskType \in {"OnInterval", "OnReload"} /\ ~tb.Sleep /\ hist.sleeps = 0
       /\ dead = "no" /\ reloader.pc = "idle" /\ reloader.err = "nil"
       /\ (\A i \in 1..Len(hist.schedLog) : hist.schedLog[i].by # "loop")
            => ~WaitingForTrigger

\* the step in which Fire(), having found the task alive, acts
FireActs ==
    firer.pc = "alive" /\ firer'.pc # "alive"

\* C18 as stated: Fire() on a live task of every non-manual looping type wakes
\* the nap the loop is waiting on.
C18_Original ==
    [][FireActs /\ tb.taskType \in {"OnTCP", "OnReload", "OnChannel", "OnInterval", "OnFsChange"}
       /\ WaitingForTrigger => t'.nap = "done"]_vars

\* C18 (amended): Fire() on a live interval or reload-driven task cancels the
\* loop's current nap, so that a loop waiting on it proceeds without the type's
\* own trigger having occurred (its select has the nap case ready); on a live
\* TCP-accept, channel-driven or filesystem-watch task Fire() returns nil and
\* changes nothing; for a manual task it calls schedule synchronously and
\* returns schedule's error.
C18_FireWakesIntervalAndReload ==
    [][/\ FireActs =>
            /\ tb.taskType \in {"OnInterval", "OnReload"} =>
                    /\ firer'.pc = "idle" /\ firer'.err = "nil" /\ hist' = hist
                    /\ WaitingForTrigger => t'.nap = "done" /\ pc'.routine = "select"
                    /\ t'.life = t.life
            /\ tb.taskType \in {"OnTCP", "OnChannel", "OnFsChange"} =>
                    /\ firer'.pc = "idle" /\ firer'.err = "nil"
                    /\ t' = t /\ hist' = hist
            /\ tb.taskType = "Manual" =>
                    /\ firer'.pc = "sched" /\ t' = t
                    /\ Len(hist'.schedLog) = Len(hist.schedLog) + 1
                    /\ hist'.schedLog[Len(hist'.schedLog)].by = "fire"
       /\ firer.pc = "sched" /\ firer'.pc # "sched" =>
            /\ tb.taskType = "Manual" /\ firer'.pc = "idle"
            /\ firer'.err \in {"nil", "schedErr"}
            /\ hist'.running = hist.running - 1 /\ t' = t]_vars

\* C18 witness: a reload-driven task without immediate run whose only schedule
\* call was made by the loop after a Fire(), no Reload() having been called
C18_Witness ==
    /\ tb.taskType = "OnReload" /\ firer.calls = 1 /\ firer.err = "nil"
    /\ reloader.calls = 0
    /\ Len(hist.schedLog) = 1 /\ hist.schedLog[1].by = "loop"

\* C19: a one-shot task has schedule invoked exactly once, synchronously by
\* start() during construction; when the constructor has returned Died() is
\* true, and no later Fire(), Reload() or Stop() makes schedule run again.
C19_OneShotRunsOnce ==
    tb.taskType = "Onetime" =>
        /\ Len(hist.schedLog) <= 1
        /\ \A i \in 1..Len(hist.schedLog) : hist.schedLog[i].by = "start"
        /\ pc.routine = "none"
        /\ Returned => Died /\ Len(hist.schedLog) = 1 /\ hist.running = 0

C19_Witness ==
    /\ tb.taskType = "Onetime" /\ Returned /\ Died
    /\ Len(hist.schedLog) = 1
    /\ firer.calls = 1 /\ firer.err = "died"
    /\ reloader.calls = 1 /\ reloader.pc = "idle"
    /\ \E c \in Callers : stopper[c].pc = "returned"

\* C20: when net.Listen (TCP-accept) or NewWatcher/Add (filesystem-watch)
\* fails in start(), construction returns the error and the task is terminal
\* from then on: Died() is true, no loop or watch goroutine exists, schedule
\* was and is never called, and the task is in neither registry; the failing
\* step itself changes nothing but this task (registries, liveness entries,
\* orchestrator batches and the process stay as they were).
C20_StartFailureIsLocal ==
    [][/\ pc'.ctor = "failed" =>
            /\ t'.life = "done"
            /\ pc'.routine = "none" /\ pc'.bg = "none"
            /\ hist'.schedLog = <<>> /\ hist'.running = 0
            /\ TaskId \notin reloadFuncs' \cup retireFuncs'
       /\ pc.ctor = "start" /\ pc'.ctor = "failed" =>
            /\ tb.taskType \in {"OnTCP", "OnFsChange"}
            /\ UNCHANGED <<reloadFuncs, retireFuncs, data, liverOnly, groupVars, ch, hist>>
            /\ dead' = dead]_vars

C20_Witness ==
    /\ pc.ctor = "failed" /\ Died /\ dead = "no"
    /\ tb.taskType = "OnFsChange" /\ tb.Trigger = "closed"
    /\ firer.calls = 1 /\ firer.err = "died"
    /\ hist.reloadCount >= 1

\* C21: while tb.Sleep of an interval task is set, neither the loop nor start()
\* enters Schedule, however the nap ended (Fire(), Reload(), expiry of a nap
\* made before the flag was set), the loop goes back to a nap instead; and
\* the lifetime of an interval task is ended by nothing but stop()'s t.die().
C21_SleepSuspendsSchedule ==
    [][tb.taskType = "OnInterval" =>
        /\ Len(hist'.schedLog) = Len(hist.schedLog) + 1
                /\ hist'.schedLog[Len(hist'.schedLog)].by \in {"loop", "start"}
                => ~tb.Sleep
        /\ pc.routine = "select" /\ pc'.routine # "select" /\ tb.Sleep /\ ~Died
                => pc'.routine = "top" /\ hist' = hist /\ t'.life = "open"
        /\ t.life = "open" /\ t'.life = "done"
                => \E c \in Callers : stopper[c].pc = "die"]_vars

\* C21 witness: an interval task asleep since its construction whose loop is
\* back at the top after a nap (woken by Fire() or Reload(), both returned nil)
\* without any schedule call, the task being alive
C21_Witness ==
    /\ tb.taskType = "OnInterval" /\ tb.Sleep /\ hist.sleeps = 0
    /\ t.fire /\ pc.routine = "top" /\ ~Died /\ dead = "no"
    /\ hist.schedLog = <<>>
    /\ firer.err = "nil" /\ reloader.err = "nil"

\* the Schedule calls entered at a clock value of the window [a, b]
CallsIn(a, b) ==
    {i \in 1..Len(hist.schedLog) : a <= hist.schedLog[i].at /\ hist.schedLog[i].at <= b}

\* every Schedule call so far returned without the clock advancing
SchedulePrompt ==
    /\ hist.slowest = 0
    /\ hist.running > 0 => hist.schedLog[Len(hist.schedLog)].at = now

\* C22: for a live, active interval task with period P whose Schedule calls
\* return promptly and on which neither Fire() nor Reload() is called, every
\* window of N * P clock units that has elapsed contains N - 1, N or N + 1
\* Schedule calls.
C22_IntervalRate ==
    tb.taskType = "OnInterval" /\ ~tb.Sleep /\ ~Died /\ dead = "no" /\ SchedulePrompt
        => \A a \in 0..now : \A N \in 1..now :
                a + N * Period <= now =>
                    /\ Cardinality(CallsIn(a, a + N * Period)) >= N - 1
                    /\ Cardinality(CallsIn(a, a + N * Period)) <= N + 1

\* C22 witness: a live interval task, never slow, at the last clock value, that
\* has made four Schedule calls or more
C22_Witness ==
    /\ tb.taskType = "OnInterval" /\ ~tb.Sleep /\ ~Died /\ dead = "no" /\ SchedulePrompt
    /\ now = Horizon /\ now >= 3 * Period
    /\ Len(hist.schedLog) >= 4 /\ hist.running = 0

\* ------------------------------------------------------------ kv and s3kv
\* longest value put in a store, in bytes
MaxLen == 2
\* most path segments of a key
MaxSegs == 2

StatusOK == 200
StatusNoContent == 204
StatusForbidden == 403
StatusNotFound == 404
\* filepath.Join(key): Clean of the one element: empty and "." segments go,
\* and what is left of a path that had only those is "."
Join(key) ==
    LET kept == SelectSeq(key, LAMBDA s : s \notin {".", ""})
    IN  IF kept = <<>> THEN <<".">> ELSE kept

\* snappy.Encode of an input below the block-compression threshold: the
\* uvarint length, then the whole input as one literal element, whose tag byte
\* is (n-1)<<2 | tagLiteral
Encode(src) ==
    IF Len(src) = 0 THEN <<0>> ELSE <<Len(src), (Len(src) - 1) * 4>> \o src

\* snappy's decode loop over the elements after the length: a literal element
\* is copied if it fits the input left and the declared length, and the output
\* must have exactly the declared length at the end (else ErrCorrupt)
RECURSIVE decode(_, _, _)
decode(dst, dLen, src) ==
    IF src = <<>>
    THEN [err |-> Len(dst) # dLen, val |-> dst]
    ELSE CASE src[1] % 4 = 0 ->
              LET length == (src[1] \div 4) + 1
              IN  IF length > dLen - Len(dst) \/ length > Len(src) - 1
                  THEN [err |-> TRUE, val |-> <<>>]
                  ELSE decode(dst \o SubSeq(src, 2, 1 + length), dLen,
                              SubSeq(src, 2 + length, Len(src)))

\* snappy.Decode(nil, src): the uvarint length, then the elements
Decode(src) ==
    IF src = <<>> THEN [err |-> TRUE, val |-> <<>>] ELSE decode(<<>>, src[1], Tail(src))

NoObject == [has |-> FALSE, body |-> <<>>]

Object(b) == [has |-> TRUE, body |-> b]

\* a response: the transport error, or the status code and the body
NetErr == [neterr |-> TRUE, code |-> 0, body |-> <<>>]

Resp(code, body) == [neterr |-> FALSE, code |-> code, body |-> body]

\* the responses of a request the store does not serve
Refused ==
    {NetErr, Resp(StatusForbidden, <<>>), Resp(500, <<>>)}

\* assertStatus with no case for http.StatusNotFound
assertStatusNoNotFound(code, resp) ==
    IF resp.neterr THEN "ErrNetwork"
    ELSE IF resp.code = code THEN "nil"
    ELSE IF resp.code = StatusForbidden THEN "ErrForbidden"
    ELSE "ErrStatusCode"

\* assertStatus(code)(resp, err)
assertStatus(code, resp) ==
    IF resp.neterr THEN "ErrNetwork"
    ELSE IF resp.code = code THEN "nil"
    ELSE IF resp.code = StatusForbidden THEN "ErrForbidden"
    ELSE IF resp.code = StatusNotFound THEN "ErrNotFound"
    ELSE "ErrStatusCode"

\* the outcome recorded for a call: val and ok are what it returned beside err;
\* served: the store answered the request from what it holds
Res(op, val, ok, err, served) ==
    [op |-> op, val |-> val, ok |-> ok, err |-> err, served |-> served]

\* what a Put or Delete that returned err established
Expect(err, e) ==
    IF err = "nil" THEN e ELSE "unknown"

\* s3kv Context.Put: snappy.Encode, PUT on filepath.Join(key), 200 expected.
\* The store keeps the body and answers 200, or refuses; on a transport error
\* the object may have been written all the same
s3kvPut ==
    /\ kvs.impl = "s3kv"
    /\ \E resp \in {Resp(StatusOK, <<>>)} \cup Refused, written \in BOOLEAN :
        LET err == assertStatus(StatusOK, resp)
        IN  /\ written => resp \in {Resp(StatusOK, <<>>), NetErr}
            /\ resp = Resp(StatusOK, <<>>) => written
            /\ kvs' = [kvs EXCEPT
                        !.store[Join(kvs.key)] =
                            IF written THEN Object(Encode(kvs.value)) ELSE @,
                        !.res = Res("Put", <<>>, FALSE, err, resp.code = StatusOK),
                        !.expect = Expect(err, "value")]
    /\ UNCHANGED <<taskVars, dead, data, liverOnly, groupVars, rid, cli>>

\* s3kv Context.Get: GET on filepath.Join(key), 200 expected, snappy.Decode;
\* a body that does not decode is returned as it is with ErrEncoding
s3kvGet ==
    /\ kvs.impl = "s3kv"
    /\ LET obj == kvs.store[Join(kvs.key)]
           answer == IF obj.has THEN Resp(StatusOK, obj.body)
                               ELSE Resp(StatusNotFound, <<>>)
       IN  \E resp \in {answer} \cup Refused :
            LET err == assertStatus(StatusOK, resp)
                dec == Decode(resp.body)
            IN  kvs' = [kvs EXCEPT !.res =
                    IF err # "nil" THEN Res("Get", <<>>, FALSE, err, resp = answer)
                    ELSE IF dec.err
                    THEN Res("Get", resp.body, FALSE, "ErrEncoding", resp = answer)
                    ELSE Res("Get", dec.val, FALSE, "nil", resp = answer)]
    /\ UNCHANGED <<taskVars, dead, data, liverOnly, groupVars, rid, cli>>

\* s3kv Context.Delete: DELETE on the key as given, 204 expected; the store
\* answers 204 whether or not the object existed
s3kvDelete ==
    /\ kvs.impl = "s3kv"
    /\ \E resp \in {Resp(StatusNoContent, <<>>)} \cup Refused, removed \in BOOLEAN :
        LET err == assertStatus(StatusNoContent, resp)
        IN  /\ removed => resp \in {Resp(StatusNoContent, <<>>), NetErr}
            /\ resp = Resp(StatusNoContent, <<>>) => removed
            /\ kvs' = [kvs EXCEPT
                        !.store[kvs.key] = IF removed THEN NoObject ELSE @,
                        !.res = Res("Delete", <<>>, FALSE, err, resp.code = StatusNoContent),
                        !.expect = Expect(err, "absent")]
    /\ UNCHANGED <<taskVars, dead, data, liverOnly, groupVars, rid, cli>>

\* s3kv Context.Has: HEAD on the key as given, 200 expected: nil is true,
\* ErrNotFound is (false, nil), any other error is returned
s3kvHas ==
    /\ kvs.impl = "s3kv"
    /\ LET answer == IF kvs.store[kvs.key].has THEN Resp(StatusOK, <<>>)
                                               ELSE Resp(StatusNotFound, <<>>)
       IN  \E resp \in {answer} \cup Refused :
            LET err == assertStatus(StatusOK, resp)
            IN  kvs' = [kvs EXCEPT !.res =
                    IF err = "nil" THEN Res("Has", <<>>, TRUE, "nil", resp = answer)
                    ELSE IF err = "ErrNotFound"
                    THEN Res("Has", <<>>, FALSE, "nil", resp = answer)
                    ELSE Res("Has", <<>>, FALSE, err, resp = answer)]
    /\ UNCHANGED <<taskVars, dead, data, liverOnly, groupVars, rid, cli>>

\* kv Context.Put: db.Put(key, value, nil)
kvPut ==
    /\ kvs.impl = "kv"
    /\ \E err \in {"nil", "dbErr"} :
        kvs' = [kvs EXCEPT !.db = IF err = "nil" THEN Object(kvs.value) ELSE @,
                           !.res = Res("Put", <<>>, FALSE, err, err = "nil"),
                           !.expect = Expect(err, "value")]
    /\ UNCHANGED <<taskVars, dead, data, liverOnly, groupVars, rid, cli>>

\* kv Context.Get: db.Get(key, nil): the value, or leveldb.ErrNotFound
kvGet ==
    /\ kvs.impl = "kv"
    /\ \E err \in {"nil", "dbErr"} :
        kvs' = [kvs EXCEPT !.res =
                    IF err # "nil" THEN Res("Get", <<>>, FALSE, err, FALSE)
                    ELSE IF kvs.db.has THEN Res("Get", kvs.db.body, FALSE, "nil", TRUE)
                    ELSE Res("Get", <<>>, FALSE, "leveldb.ErrNotFound", TRUE)]
    /\ UNCHANGED <<taskVars, dead, data, liverOnly, groupVars, rid, cli>>

\* kv Context.Delete: db.Delete(key, nil)
kvDelete ==
    /\ kvs.impl = "kv"
    /\ \E err \in {"nil", "dbErr"} :
        kvs' = [kvs EXCEPT !.db = IF err = "nil" THEN NoObject ELSE @,
                           !.res = Res("Delete", <<>>, FALSE, err, err = "nil"),
                           !.expect = Expect(err, "absent")]
    /\ UNCHANGED <<taskVars, dead, data, liverOnly, groupVars, rid, cli>>

\* kv Context.Has: db.Has(key, nil)
kvHas ==
    /\ kvs.impl = "kv"
    /\ \E err \in {"nil", "dbErr"} :
        kvs' = [kvs EXCEPT !.res =
                    IF err # "nil" THEN Res("Has", <<>>, FALSE, err, FALSE)
                    ELSE Res("Has", <<>>, kvs.db.has, "nil", TRUE)]
    /\ UNCHANGED <<taskVars, dead, data, liverOnly, groupVars, rid, cli>>

\* one client working on one key of a store that may already hold an object
\* (an empty one, or one that declares two bytes and carries one).
\* kvs.impl: which package; kvs.key, kvs.value: the arguments of the client;
\* kvs.store: the objects of the bucket by path (s3kv); kvs.db: the record of
\* the key in LevelDB (kv); kvs.res: the last call and what it returned;
\* kvs.expect: what the last Put or Delete of the key that returned established
\* ("value", "absent"), "unknown" after one that returned an error
KvInit ==
    /\ InitTask /\ InitLiver /\ InitNoGroup
    /\ tb.taskType = "Manual" /\ ~tb.Immediately
    /\ \E impl \in {"kv", "s3kv"},
          key \in {k \in UNION {[1..n -> {"a", ".", ""}] : n \in 1..MaxSegs} : k[1] # ""},
          value \in UNION {[1..n -> {0, 1}] : n \in 0..MaxLen},
          f \in {<<>>, <<2, 0, 1>>}, had \in BOOLEAN :
            kvs = [impl |-> impl, key |-> key, value |-> value,
                   store |-> [p \in {Join(key), key} |->
                                IF impl = "s3kv" /\ had THEN Object(f) ELSE NoObject],
                   db |-> IF impl = "kv" /\ had THEN Object(f) ELSE NoObject,
                   res |-> Res("", <<>>, FALSE, "nil", FALSE), expect |-> "unknown"]
    /\ rid = <<>> /\ cli = <<>>

KvNext ==
    \/ s3kvPut \/ s3kvGet \/ s3kvDelete \/ s3kvHas
    \/ kvPut \/ kvGet \/ kvDelete \/ kvHas

KvSpec ==
    KvInit /\ [][KvNext]_vars

\* C23: in both stores, a Get of the key that the store serves after a Put of
\* the key returned nil (no Put or Delete of it returning since) returns
\* exactly the value put and no error; a Has that the store serves after a
\* Delete of the key returned nil returns false and no error.
C23_PutGetDeleteHas ==
    /\ kvs.res.op = "Get" /\ kvs.res.served /\ kvs.expect = "value"
            => kvs.res.err = "nil" /\ kvs.res.val = kvs.value
    /\ kvs.res.op = "Has" /\ kvs.res.served /\ kvs.expect = "absent"
            => kvs.res.err = "nil" /\ ~kvs.res.ok

\* a key that filepath.Join rewrites, a value of the full length, an object
\* that was there before: Get has returned the value after Put
C23_Witness ==
    /\ kvs.impl = "s3kv" /\ Join(kvs.key) # kvs.key /\ Len(kvs.value) = MaxLen
    /\ kvs.res.op = "Get" /\ kvs.res.served /\ kvs.expect = "value"
    /\ kvs.res.val = kvs.value /\ kvs.store[kvs.key].has

\* ----------------------------------------------------------------- randid
\* width of the sequence component in bits (24 in the code: seqMax = 0xFFFFFF)
SeqBits == 6

\* an even increment
seqIncEven ==
    2 * 336

seqInc ==
    673

seqMax ==
    2 ^ SeqBits - 1

\* goroutines calling New()
NewCallers == {"n1", "n2"}

\* atomic.AddUint32(&seq, seqInc): seq is a uint32, which has 8 bits above the
\* 24 of the sequence component
AddUint32(s, delta) ==
    (s + delta) % 2 ^ (SeqBits + 8)

\* the bytes of the counter that reach the identifier: PutUint32(dst[3:], v)
\* then copy(src[6:], dst) takes dst[0..5], the low three bytes of v
Component(v) ==
    v % (seqMax + 1)

RECURSIVE GCD(_, _)
GCD(a, b) ==
    IF b = 0 THEN a ELSE GCD(b, a % b)

\* New() up to and including atomic.AddUint32(&seq, seqInc)
NewAdd(c) ==
    /\ rid.got[c] = -1 /\ Len(rid.ids) < seqMax + 2
    /\ rid' = [rid EXCEPT !.seq = AddUint32(@, seqInc),
                          !.got[c] = AddUint32(rid.seq, seqInc),
                          !.ids = Append(@, Component(AddUint32(rid.seq, seqInc)))]
    /\ UNCHANGED <<taskVars, dead, data, liverOnly, groupVars, kvs, cli>>

\* New() from copy(src[6:], dst) to the return of the identifier
NewReturn(c) ==
    /\ rid.got[c] # -1
    /\ rid' = [rid EXCEPT !.last = Component(rid.got[c]), !.got[c] = -1]
    /\ UNCHANGED <<taskVars, dead, data, liverOnly, groupVars, kvs, cli>>

\* rid.seq: the counter; rid.got[c]: the value AddUint32 returned to caller c
\* (-1: not in New()); rid.ids: the sequence component each call of AddUint32
\* fixed for its identifier, in the order of the calls; rid.last: the sequence
\* component of the identifier returned last.
\* init(): seq = uint32(UnixNano) & seqMax, here one of four values
RandidInit ==
    /\ InitTask /\ InitLiver /\ InitNoGroup
    /\ tb.taskType = "Manual" /\ ~tb.Immediately
    /\ \E s \in {0, 1, seqMax - 1, seqMax} :
            rid = [seq |-> s, got |-> [c \in NewCallers |-> -1], ids |-> <<>>,
                   last |-> -1]
    /\ kvs = <<>> /\ cli = <<>>

RandidNext ==
    \E c \in NewCallers : NewAdd(c) \/ NewReturn(c)

RandidSpec ==
    RandidInit /\ [][RandidNext]_vars

\* C24: the sequence components of the identifiers of any seqMax+1 successive
\* calls of New(), whichever goroutines make them, are pairwise distinct, so
\* every value has been used once before one comes again (stated of the newest
\* call against all earlier ones, in every state); the component of
\* the identifier a call returns is the one its own increment produced; the
\* increment of the code is coprime with 2^24, the number of sequence values
\* of the code.
C24_SequenceFullPeriod ==
    /\ \A i \in DOMAIN rid.ids :
            /\ i < Len(rid.ids) /\ Len(rid.ids) - i <= seqMax
                    => rid.ids[i] # rid.ids[Len(rid.ids)]
            /\ Len(rid.ids) - i = seqMax + 1 => rid.ids[i] = rid.ids[Len(rid.ids)]
    /\ rid.last # -1 => \E i \in DOMAIN rid.ids : rid.ids[i] = rid.last
    /\ GCD(seqInc, 2 ^ 24) = 1

\* every sequence value has been drawn and the first has come again, the
\* counter has overflowed, and two calls are in progress at once
C24_Witness ==
    /\ Len(rid.ids) = seqMax + 2
    /\ {rid.ids[i] : i \in DOMAIN rid.ids} = 0..seqMax
    /\ rid.seq < Len(rid.ids) * seqInc
    /\ \A c \in NewCallers : rid.got[c] # -1
    /\ rid.last # -1

\* ------------------------------------------------------ client and s3kv
\* goroutines calling s3kv.NewContext
CliCallers == {"a1", "a2"}

\* s3kv.NewContext, client.NewContext up to the first clientMap.Load: the name
\* "s3kv_<name>" is never empty; a cached context is returned at once and
\* s3kv.NewContext wraps it
NewContextLoad(c) ==
    /\ dead = "no" /\ cli.call[c].pc = "idle"
    /\ cli' = [cli EXCEPT !.call[c] =
                    IF cli.stored THEN [pc |-> "returned", ret |-> "context"]
                                  ELSE [pc |-> "lock", ret |-> "none"]]
    /\ UNCHANGED <<taskVars, dead, data, liverOnly, groupVars, kvs, rid>>

\* client.NewContext: mtx.Lock(), the second clientMap.Load, and on a miss
\* clientMap.Store(name, c) and the entry into base.NewTaskOnReload
NewContextLock(c) ==
    /\ dead = "no" /\ cli.call[c].pc = "lock" /\ cli.mtx = ""
    /\ cli' = IF cli.stored
              THEN [cli EXCEPT !.call[c] = [pc |-> "returned", ret |-> "context"]]
              ELSE [cli EXCEPT !.mtx = c, !.stored = TRUE, !.call[c].pc = "newTask"]
    /\ UNCHANGED <<taskVars, dead, data, liverOnly, groupVars, kvs, rid>>

\* a caller is inside base.NewTaskOnReload(c, "client/<name>")
InNewTask ==
    \E c \in CliCallers : cli.call[c].pc = "newTask"

\* client Context.Reload as run by newTask: ErrConfigure when the
\* configuration has no host for the name, and newTask makes that Fatal
clientReloaded ==
    /\ newTaskReloaded
    /\ hist'.ctorReloadErr = ~cli.host

\* newTask and start of the client's reload task
ClientCtor ==
    \/ InNewTask /\ newTaskReload
    \/ InNewTask /\ clientReloaded
    \/ InNewTask /\ start
    \/ InNewTask /\ startRun
    \/ InNewTask /\ startRunDone
    \/ InNewTask /\ startGo
    \/ InNewTask /\ startRetireRegister
    \/ InNewTask /\ startReloadRegister

\* client.NewContext: NewTaskOnReload has returned (its results are dropped),
\* return c with the deferred mtx.Unlock(); s3kv.NewContext wraps it
NewContextReturn(c) ==
    /\ dead = "no" /\ cli.call[c].pc = "newTask" /\ pc.ctor \in {"done", "failed"}
    /\ cli' = [cli EXCEPT !.mtx = "", !.call[c] = [pc |-> "returned", ret |-> "context"]]
    /\ UNCHANGED <<taskVars, dead, data, liverOnly, groupVars, kvs, rid>>

\* cli.name: the argument of s3kv.NewContext in this run; cli.host: does the
\* configuration hold http_client.s3kv_<name>.host; cli.stored: is the name
\* in clientMap; cli.mtx: the holder of the client package's mtx; cli.call[c]:
\* where caller c is and what s3kv.NewContext returned to it
ClientInit ==
    /\ InitTask /\ InitLiver /\ InitNoGroup
    /\ tb.taskType = "OnReload" /\ tb.Immediately
    /\ \E name \in {"", "default"}, host \in BOOLEAN :
            cli = [name |-> name, host |-> host, stored |-> FALSE, mtx |-> "",
                   call |-> [c \in CliCallers |-> [pc |-> "idle", ret |-> "none"]]]
    /\ kvs = <<>> /\ rid = <<>>

ClientNext ==
    \/ \E c \in CliCallers : NewContextLoad(c) \/ NewContextLock(c) \/ NewContextReturn(c)
    \/ ClientCtor
    \/ routineNap

ClientSpec ==
    ClientInit /\ [][ClientNext]_vars

\* C25: when the configuration holds no client s3kv_<name>, s3kv.NewContext
\* returns nil to every caller and the process goes on.
C25_NilWhenNotConfigured ==
    ~cli.host =>
        /\ dead = "no"
        /\ \A c \in CliCallers : cli.call[c].pc = "returned" => cli.call[c].ret = "nil"

\* the constructor's call of the behaviour's reload has returned without error
CtorReloadDone ==
    /\ pc.ctor \notin {"newTask", "reloading"}
    /\ hist.reloadCount >= 1
    /\ ~hist.ctorReloadErr

\* C26: for every task type, whenever a schedule call has been made, the loop
\* goroutine exists, or the task's callbacks are in the reload or retire
\* registry, the reload run by the constructor has been invoked and has
\* returned; and start() is entered only with the reload lock released.
C26_ReloadBeforeStart ==
    /\ hist.schedLog # <<>> => CtorReloadDone
    /\ pc.routine # "none" => CtorReloadDone
    /\ TaskId \in reloadFuncs \cup retireFuncs => CtorReloadDone
    /\ pc.ctor = "start" => CtorReloadDone /\ ~t.mtxReload /\ hist.reloadCount = 1

\* an immediate task made its first schedule call in start(), before the loop
C26_Witness ==
    /\ pc.ctor = "schedRun" /\ Len(hist.schedLog) = 1 /\ hist.schedLog[1].by = "start"
    /\ pc.routine = "none" /\ TaskId \notin reloadFuncs \cup retireFuncs
    /\ hist.reloadCount = 1

\* C27: once a filesystem-watch task has stopped (lifetime cancelled, watcher
\* closed, so that no event can arrive any more), its background goroutine is
\* not going round its select loop: it has returned, or has yet to look.
C27_FsWatchGoroutineExits ==
    tb.taskType = "OnFsChange" /\ Died /\ tb.Trigger = "closed" => pc.bg # "spin"

\* C28: once Stop() has been called on a TCP-accept task, or on a
\* channel-driven task whose Retire closes the channel, a background goroutine
\* of the task that is blocked in Accept or in the channel receive eventually
\* returns (the process going on, and the failed Accept calls of the model
\* not being used up).
C28_TriggerWaitTerminates ==
    (pc.bg = "wait" /\ \E c \in Callers : stopper[c].pc # "idle")
        ~> \/ pc.bg # "wait"
           \/ dead # "no"
           \/ tb.taskType = "OnTCP" /\ hist.acceptErrs = MaxAcceptErr

\* Stop() has returned and the goroutine that was blocked has come back: from
\* Accept with the error of the closed listener, or from the receive on the
\* channel that Retire closed
C28_Witness ==
    /\ \E c \in Callers : stopper[c].pc = "returned"
    /\ pc.bg = "done" /\ pc.routine = "exit" /\ dead = "no"
    /\ \/ tb.taskType = "OnTCP" /\ hist.acceptErrs = 1 /\ hist.conns = 0
       \/ tb.taskType = "OnChannel" /\ ch.closed /\ hist.received = <<>>

\* every Schedule call of the task so far returned within the period, and the
\* one in progress has not run longer
ScheduleWithinPeriod ==
    /\ hist.slowest <= Period
    /\ hist.running > 0 => now - hist.schedLog[Len(hist.schedLog)].at <= Period

\* C29: an active tracked interval task registers its key with the deadline
\* 4 * Period, counted from now, at the top of every loop iteration; while
\* such a task is alive and its Schedule calls return within Period, its entry
\* is never overdue and the watchdog never finds it expired; an interval task
\* constructed untracked (as the watchdog's own task is) has no entry at all.
C29_TrackedTaskStaysAlive ==
    [][/\ pc.routine = "top" /\ pc'.routine = "select" /\ ~tb.Sleep /\ tb.Argument = 1
            => data'[TaskId] = [last |-> now, timeout |-> 4 * Period]
       /\ tb'.Argument = 1 /\ ~Died' /\ dead' = "no" /\ ScheduleWithinPeriod'
            => /\ data'[TaskId] # None => ~Expired(data'[TaskId], now')
               /\ TaskId \notin fatalKey'
       /\ tb'.Argument = 0 => data'[TaskId] = None]_vars

\* a live tracked task, one of whose Schedule calls took the whole period, has
\* been examined by a scan of the watchdog late in the run and passed
C29_Witness ==
    /\ tb.Argument = 1 /\ ~Died /\ dead = "no" /\ ~tb.Sleep
    /\ ScheduleWithinPeriod /\ hist.slowest = Period
    /\ now > TrackTimeout
    /\ scan.pc = "Range" /\ scan.now = now /\ TaskId \in lhist.stable
    /\ TaskId \notin scan.todo /\ fatalKey = {}

\* C30: once Stop() has returned to a caller on a tracked interval task (with
\* nil or with the timeout error), the liveness registry holds no entry for
\* the task.
C30_NoEntryAfterStop ==
    tb.taskType = "OnInterval" /\ tb.Argument = 1
        /\ (\E c \in Callers : stopper[c].pc = "returned")
        => data[TaskId] = None

\* ------------------------------------------------- randid: New and Decode
\* a ^ b on bytes
RECURSIVE Xor(_, _)
Xor(a, b) ==
    IF a = 0 THEN b
    ELSE IF b = 0 THEN a
    ELSE ((a + b) % 2) + 2 * Xor(a \div 2, b \div 2)

\* base64.URLEncoding.Encode(dst, src) for the 12 bytes of src: four groups of
\* three bytes, each written as four characters of the alphabet A-Z a-z 0-9 - _
\* (characters are their ASCII codes); no padding is needed
URLEncode(src) ==
    LET char(v) == CASE v < 26 -> 65 + v
                     [] v < 52 -> 97 + (v - 26)
                     [] v < 62 -> 48 + (v - 52)
                     [] v = 62 -> 45
                     [] OTHER  -> 95
    IN  [k \in 1..16 |->
            LET g  == (k - 1) \div 4
                b0 == src[3 * g + 1]
                b1 == src[3 * g + 2]
                b2 == src[3 * g + 3]
            IN  char(CASE (k - 1) % 4 = 0 -> b0 \div 4
                       [] (k - 1) % 4 = 1 -> (b0 % 4) * 16 + b1 \div 16
                       [] (k - 1) % 4 = 2 -> (b1 % 16) * 4 + b2 \div 64
                       [] OTHER           -> b2 % 64)]

\* base64.URLEncoding.Decode(dst, src) for 16 characters without padding or
\* line breaks: CorruptInputError when a character is outside the alphabet
URLDecode(src) ==
    LET val(c) == CASE 65 <= c /\ c <= 90  -> c - 65
                    [] 97 <= c /\ c <= 122 -> c - 97 + 26
                    [] 48 <= c /\ c <= 57  -> c - 48 + 52
                    [] c = 45              -> 62
                    [] c = 95              -> 63
                    [] OTHER               -> -1
    IN  IF \E k \in 1..16 : val(src[k]) = -1
        THEN [err |-> TRUE, dst |-> <<>>]
        ELSE [err |-> FALSE,
              dst |-> [j \in 1..12 |->
                        LET g  == (j - 1) \div 3
                            c0 == val(src[4 * g + 1])
                            c1 == val(src[4 * g + 2])
                            c2 == val(src[4 * g + 3])
                            c3 == val(src[4 * g + 4])
                        IN  CASE (j - 1) % 3 = 0 -> c0 * 4 + c1 \div 16
                              [] (j - 1) % 3 = 1 -> (c1 % 16) * 16 + c2 \div 4
                              [] OTHER           -> (c2 % 4) * 64 + c3]]

\* randid.New with the marker, time.Now().Unix() and the value AddUint32
\* returned: src is the marker, the three low bytes of the timestamp (its
\* fourth is overwritten by PutUint32(dst[3:], seq)) and the three low bytes
\* of the sequence value; then the swap / XOR loop, i = 0..5 (an index i of
\* the source is i + 1 here), and the encoding
New(marker, unix, seqv) ==
    LET byte(v, n) == (v \div (256 ^ n)) % 256
        src0 == marker \o <<byte(unix, 0), byte(unix, 1), byte(unix, 2),
                            byte(seqv, 0), byte(seqv, 1), byte(seqv, 2)>>
        RECURSIVE loop(_, _)
        loop(src, i) ==
            IF i > 5 THEN src
            ELSE LET swapped == [src EXCEPT ![i * 2 + 1] = src[6 + i + 1],
                                            ![6 + i + 1] = src[i * 2 + 1]]
                 IN  loop([swapped EXCEPT ![i * 2 + 1] = Xor(@, swapped[10])], i + 1)
    IN  URLEncode(loop(src0, 0))

\* a reverse loop that swaps before it applies the XOR
RECURSIVE decodeLoopSwapFirst(_, _)
decodeLoopSwapFirst(dst, i) ==
    IF i < 0 THEN dst
    ELSE LET swapped == [dst EXCEPT ![i * 2 + 1] = dst[6 + i + 1],
                                    ![6 + i + 1] = dst[i * 2 + 1]]
         IN  decodeLoopSwapFirst([swapped EXCEPT ![i * 2 + 1] = Xor(@, swapped[10])],
                                 i - 1)

\* randid.Decode, the loop for i := 5; 0 <= i; i--: XOR with dst[9], then swap
RECURSIVE decodeLoop(_, _)
decodeLoop(dst, i) ==
    IF i < 0 THEN dst
    ELSE LET xored == [dst EXCEPT ![i * 2 + 1] = Xor(@, dst[10])]
         IN  decodeLoop([xored EXCEPT ![i * 2 + 1] = xored[6 + i + 1],
                                      ![6 + i + 1] = xored[i * 2 + 1]], i - 1)

\* randid.Decode(id) called when time.Now().Unix() is unix: nil and the zero
\* time for a length other than 16 or a decoding error; else dst[2:6] and the
\* time of the three timestamp bytes with the bits 24..31 of unix (loop: the
\* bytes as the reverse loop leaves them, before dst[9] = 0)
DecodeId(id, unix) ==
    IF Len(id) # 16 \/ URLDecode(id).err
    THEN [ip |-> <<>>, zero |-> TRUE, unix |-> 0, loop |-> <<>>]
    ELSE LET dst == decodeLoop(URLDecode(id).dst, 5)
         IN  [ip |-> SubSeq(dst, 3, 6), zero |-> FALSE,
              unix |-> dst[7] + 256 * dst[8] + 65536 * dst[9]
                         + ((unix \div (2 ^ 24)) % 256) * (2 ^ 24),
              loop |-> dst]

\* a caller takes an id from New()
CallNew ==
    /\ rid.pc = "start"
    /\ rid' = [rid EXCEPT !.id = New(rid.marker, rid.unix, rid.seqv), !.pc = "made"]
    /\ UNCHANGED <<taskVars, dead, data, liverOnly, groupVars, kvs, cli>>

\* a caller passes Decode the id, or a string that is not an id: one of another
\* length, or one with a character outside the alphabet ('+', ' ')
CallDecode ==
    /\ rid.pc = "made"
    /\ \E input \in {rid.id, <<>>, SubSeq(rid.id, 1, 15), rid.id \o <<65>>}
                        \cup {[rid.id EXCEPT ![k] = c] : k \in {1, 16}, c \in {43, 32}} :
            rid' = [rid EXCEPT !.input = input, !.pc = "done",
                               !.out = DecodeId(input, rid.unix + rid.later)]
    /\ UNCHANGED <<taskVars, dead, data, liverOnly, groupVars, kvs, cli>>

\* rid.marker: the 6 bytes of the marker; rid.unix: time.Now().Unix() as New
\* reads it (uint32); rid.seqv: the value AddUint32 returns to New; rid.later:
\* the seconds from New to Decode
CodecInit ==
    /\ InitTask /\ InitLiver /\ InitNoGroup
    /\ tb.taskType = "Manual" /\ ~tb.Immediately
    /\ \E marker \in [1..6 -> {0, 255}] \cup {<<1, 2, 3, 4, 5, 6>>, <<57, 48, 192, 168, 0, 1>>},
          unix \in {0, 2 ^ 24 - 1, 2 ^ 24, 1700000000, 2 ^ 30 + 2 ^ 24 - 1},
          seqv \in {0, seqInc, 2 ^ 24 - 1, 2 ^ 24, 11259375, 2147483647},
          later \in {0, 2 ^ 24} :
            rid = [marker |-> marker, unix |-> unix, seqv |-> seqv, later |-> later,
                   id |-> <<>>, input |-> <<>>, pc |-> "start",
                   out |-> [ip |-> <<>>, zero |-> TRUE, unix |-> 0, loop |-> <<>>]]
    /\ kvs = <<>> /\ cli = <<>>

CodecSpec ==
    CodecInit /\ [][CallNew \/ CallDecode]_vars

\* C36: Decode inverts New. For every marker of 6 bytes, timestamp and sequence
\* value, Decode(New()) returns the bytes 2..5 of the marker as the IP and a time
\* whose low 24 bits are those of the Unix timestamp New read; the reverse loop
\* restores exactly the bytes New started from. An input whose length is not 16
\* or that holds a character outside the alphabet yields nil and the zero time.
C36_DecodeInvertsNew ==
    rid.pc = "done" =>
        IF rid.input = rid.id
        THEN /\ rid.out.ip = SubSeq(rid.marker, 3, 6) /\ ~rid.out.zero
             /\ rid.out.unix % (2 ^ 24) = rid.unix % (2 ^ 24)
             /\ rid.out.loop = rid.marker \o
                    <<rid.unix % 256, (rid.unix \div 256) % 256, (rid.unix \div 65536) % 256,
                      rid.seqv % 256, (rid.seqv \div 256) % 256, (rid.seqv \div 65536) % 256>>
        ELSE rid.out.ip = <<>> /\ rid.out.zero

\* C36 witness: an id made from a marker, timestamp and sequence value with a
\* nonzero XOR byte has been decoded a whole period of the 24 bits later, to a
\* time other than the one it was made at
C36_Witness ==
    /\ rid.pc = "done" /\ rid.input = rid.id
    /\ rid.marker = <<57, 48, 192, 168, 0, 1>> /\ rid.seqv % 256 # 0
    /\ rid.unix = 1700000000 /\ rid.later = 2 ^ 24
    /\ rid.out.unix = rid.unix + 2 ^ 24

\* ---------------------------------------------------------------- websvr
\* NewWebsvr up to the first websvrMap.Load(name): a value found is returned
\* as value.(*base.Task), a type assertion that panics on any other type
NewWebsvrLoad(c) ==
    /\ dead = "no" /\ cli.call[c].pc = "idle"
    /\ IF cli.stored = ""
       THEN dead' = dead /\ cli' = [cli EXCEPT !.call[c].pc = "lock"]
       ELSE IF cli.stored = "*base.Task"
       THEN dead' = dead /\ cli' = [cli EXCEPT !.call[c] = [pc |-> "returned", ret |-> "first"]]
       ELSE dead' = "panic" /\ cli' = cli
    /\ UNCHANGED <<taskVars, data, liverOnly, groupVars, kvs, rid>>

\* NewWebsvr: websvrMtx.Lock(), the second Load, and on a miss
\* websvrMap.Store(name, c) with c the *Context, and the entry into
\* base.NewTaskOnReload
NewWebsvrLock(c) ==
    /\ dead = "no" /\ cli.call[c].pc = "lock" /\ cli.mtx = ""
    /\ IF cli.stored = ""
       THEN /\ dead' = dead
            /\ cli' = [cli EXCEPT !.mtx = c, !.stored = "*Context", !.made = @ + 1,
                                  !.call[c].pc = "newTask"]
       ELSE IF cli.stored = "*base.Task"
       THEN dead' = dead /\ cli' = [cli EXCEPT !.call[c] = [pc |-> "returned", ret |-> "first"]]
       ELSE dead' = "panic" /\ cli' = cli
    /\ UNCHANGED <<taskVars, data, liverOnly, groupVars, kvs, rid>>

\* newTask and start of the web server's reload task; Context.Reload of the
\* web server returns nil whatever the configuration holds
WebsvrCtor ==
    \/ InNewTask /\ newTaskReload
    \/ InNewTask /\ newTaskReloaded /\ ~hist'.ctorReloadErr
    \/ InNewTask /\ start
    \/ InNewTask /\ startRun
    \/ InNewTask /\ startRunDone
    \/ InNewTask /\ startGo
    \/ InNewTask /\ startRetireRegister
    \/ InNewTask /\ startReloadRegister

\* NewWebsvr: base.NewTaskOnReload has returned and its task is returned, with
\* the deferred websvrMtx.Unlock()
NewWebsvrReturn(c) ==
    /\ dead = "no" /\ cli.call[c].pc = "newTask" /\ pc.ctor \in {"done", "failed"}
    /\ cli' = [cli EXCEPT !.mtx = "", !.call[c] = [pc |-> "returned", ret |-> "first"]]
    /\ UNCHANGED <<taskVars, dead, data, liverOnly, groupVars, kvs, rid>>

\* cli.stored: the dynamic type of websvrMap's value for the name ("": none);
\* cli.mtx: the holder of websvrMtx; cli.made: the contexts (and tasks)
\* created; cli.call[c]: where caller c is and the task NewWebsvr returned
WebsvrInit ==
    /\ InitTask /\ InitLiver /\ InitNoGroup
    /\ tb.taskType = "OnReload" /\ tb.Immediately
    /\ cli = [stored |-> "", mtx |-> "", made |-> 0,
              call |-> [c \in CliCallers |-> [pc |-> "idle", ret |-> "none"]]]
    /\ kvs = <<>> /\ rid = <<>>

WebsvrSpec ==
    WebsvrInit /\ [][\/ \E c \in CliCallers :
                            NewWebsvrLoad(c) \/ NewWebsvrLock(c) \/ NewWebsvrReturn(c)
                     \/ WebsvrCtor
                     \/ routineNap \/ routineFire \/ routineScheduled
                     \/ Reload
                     \/ Reloaded /\ reloader'.err = "nil"]_vars

\* C37: NewWebsvr called with a name that is already registered returns the
\* task the first call created, creates no second task and does not fault, for
\* sequential and for concurrent callers.
C37_OneTaskPerName ==
    /\ dead = "no"
    /\ cli.made <= 1
    /\ \A c \in CliCallers : cli.call[c].pc = "returned" => cli.call[c].ret = "first"

\* C31: for a live reload-driven (or interval) task no wake-up of Fire() is lost:
\* once a Fire() has returned nil, the loop is not found blocked on a nap that
\* only a further Fire() or Reload() can end, without having made any schedule
\* call since (here: any schedule call at all).
C31_NoLostWakeUp ==
    /\ tb.taskType \in {"OnInterval", "OnReload"} /\ ~tb.Sleep /\ hist.sleeps = 0
       /\ dead = "no" /\ firer.pc = "idle" /\ firer.err = "nil" /\ firer.calls > 0
       /\ (\A i \in 1..Len(hist.schedLog) : hist.schedLog[i].by # "loop")
            => ~(pc.routine = "select" /\ t.nap = "open" /\ ~Died)

\* C32: once the lifetime has been cancelled the loop starts no further schedule
\* call: every schedule invocation made by the loop began with Died() false.
C32_NoScheduleAfterDeath ==
    \A i \in 1..Len(hist.schedLog) :
        hist.schedLog[i].by = "loop" => ~hist.schedLog[i].died

\* C33: Stop() on a manual or one-shot task (which never runs the loop goroutine)
\* returns nil, never the timeout error: no retire call is outstanding that could
\* delay it.
C33_StopNilWithoutLoop ==
    \A c \in Callers :
        tb.taskType \in {"Manual", "Onetime"} /\ stopper[c].pc = "returned"
            => stopper[c].err = "nil"

\* C34: when the channel of a channel-driven task is closed and Stop() has never
\* been called, the loop goroutine runs retire and exits without a fault.
C34_ClosureWithoutStopNoFault ==
    tb.taskType = "OnChannel" /\ (\A c \in Callers : stopper[c].pc = "idle")
        => dead # "panic"

\* C35: every connection accepted by the listener of a TCP-accept task is handed
\* to exactly one schedule call of the loop as its argument: never to two, and,
\* when the loop has ended, to one.
C35_EveryConnScheduledOnce ==
    tb.taskType = "OnTCP" =>
        \A k \in 1..hist.conns :
            LET calls == {i \in 1..Len(hist.schedLog) :
                            hist.schedLog[i].by = "loop" /\ hist.schedLog[i].arg = k}
            IN  /\ Cardinality(calls) <= 1
                /\ pc.routine \in {"retire", "exit"} => Cardinality(calls) = 1

====
